---- MODULE Spec2Model ----
(***************************************************************************)
(* Model of the Cadence test runner (src/test/test_runner.go).             *)
(*                                                                         *)
(* One TestRunner is modelled.  A call of RunTest / RunTests is a process  *)
(* whose position is pc; every hook or case invocation is one step.  The   *)
(* interpreter, the checker and math/rand are external collaborators: an   *)
(* invocation through inter.Invoke either returns nil, returns an error,   *)
(* or panics (the handlers of this file that the interpreter calls back    *)
(* panic themselves, lines 559-643), and the orchestrator's own reaction   *)
(* to each of the three is what is modelled.                               *)
(***************************************************************************)
EXTENDS Integers, Sequences, FiniteSets, TLC

(***************************************************************************)
(* Bounds of the model.                                                    *)
(***************************************************************************)
\* longest list of non-hook function declarations in a script
MaxFuncs == 3
\* largest configured random seed (the smallest is -1)
MaxSeed == 2

(***************************************************************************)
(* Names.  A function name is the tuple of its characters, so that         *)
(* strings.HasPrefix is computed and not assumed.                          *)
(***************************************************************************)
testFunctionPrefix == <<"t", "e", "s", "t">>

setupFunctionName == <<"s", "e", "t", "u", "p">>

tearDownFunctionName == <<"t", "e", "a", "r", "D", "o", "w", "n">>

beforeEachFunctionName == <<"b", "e", "f", "o", "r", "e", "E", "a", "c", "h">>

afterEachFunctionName == <<"a", "f", "t", "e", "r", "E", "a", "c", "h">>

HookNames ==
    {setupFunctionName, tearDownFunctionName, beforeEachFunctionName, afterEachFunctionName}

\* strings.HasPrefix(s, prefix)
HasPrefix(s, prefix) ==
    /\ Len(s) >= Len(prefix)
    /\ SubSeq(s, 1, Len(prefix)) = prefix

\* A function declaration: its identifier, whether its parameter list is
\* non-empty and whether it has a return type annotation.
Decl(n, p, r) == [name |-> n, hasParams |-> p, hasReturn |-> r]

\* The declarations scripts are built from: three well-formed test functions,
\* a helper whose name is shorter than the prefix and that takes parameters
\* and returns a value, a test function with a parameter and a test function
\* with a return type.
FuncPool ==
    { Decl(<<"t", "e", "s", "t", "A">>, FALSE, FALSE),
      Decl(<<"t", "e", "s", "t", "B">>, FALSE, FALSE),
      Decl(<<"t", "e", "s", "t">>, FALSE, FALSE),
      Decl(<<"t", "e", "s">>, TRUE, TRUE),
      Decl(<<"t", "e", "s", "t", "P">>, TRUE, FALSE),
      Decl(<<"t", "e", "s", "t", "R">>, FALSE, TRUE) }

\* the names RunTest is called with: a test function and a helper
RunTestNames == { <<"t", "e", "s", "t", "A">>, <<"t", "e", "s">> }

HookDecl(n) == Decl(n, FALSE, FALSE)

\* sequences of pairwise distinct elements of S, of length at most n
RECURSIVE DistinctSeqs(_, _)
DistinctSeqs(S, n) ==
    IF n = 0 THEN { <<>> }
    ELSE LET shorter == DistinctSeqs(S, n - 1)
             longest == { q \in shorter : Len(q) = n - 1 }
         IN  shorter \cup
             { Append(p[1], p[2]) :
                 p \in { p \in longest \X S : \A i \in 1..Len(p[1]) : p[1][i] # p[2] } }

\* A test script: the hooks it declares and its other function declarations,
\* in declaration order.  (The checker rejects a redeclared name.)
Scripts == [hooks : SUBSET HookNames, funcs : DistinctSeqs(FuncPool, MaxFuncs)]

Seeds == (-1)..MaxSeed

HookOrder ==
    <<setupFunctionName, beforeEachFunctionName, afterEachFunctionName, tearDownFunctionName>>

\* program.Program.FunctionDeclarations(): every top-level function, hooks included
FunctionDeclarations(script) ==
    LET declared(n) == n \in script.hooks
        hooks == SelectSeq(HookOrder, declared)
    IN  [i \in 1..Len(hooks) |-> HookDecl(hooks[i])] \o script.funcs

\* inter.Globals.Contains(name)
GlobalsContains(script, n) ==
    \E i \in 1..Len(FunctionDeclarations(script)) : FunctionDeclarations(script)[i].name = n

hasSetup(script) == GlobalsContains(script, setupFunctionName)

hasTearDown(script) == GlobalsContains(script, tearDownFunctionName)

hasBeforeEach(script) == GlobalsContains(script, beforeEachFunctionName)

hasAfterEach(script) == GlobalsContains(script, afterEachFunctionName)

(***************************************************************************)
(* Errors, results and panics.                                             *)
(***************************************************************************)
Error(k, n) == [kind |-> k, fn |-> n]

\* the nil error; also "not panicking"
NilErr == Error("nil", <<>>)

\* Result{TestName, Error}
Result(n, e) == [TestName |-> n, Error |-> e]

\* what one inter.Invoke can do: return nil, return an error, or panic
InvokeOutcomes == {"ok", "err", "panic"}

\* The predeclared recover(): it returns the panic value only when it is
\* called directly by the deferred function, and nil otherwise (Go language
\* specification, "Handling panics").
recover(panicking, calledDirectlyByDeferred) ==
    IF calledDirectlyByDeferred THEN panicking ELSE NilErr

\* recoverPanics(onError): the error handed to onError, NilErr when onError is
\* not called.  Every use is `defer func() { recoverPanics(...) }()`, so the
\* deferred function is the closure and recover() is called one frame below it.
recoverPanics(panicking) ==
    LET r == recover(panicking, FALSE)
    IN  IF r = NilErr THEN NilErr ELSE r

\* What a function with the deferred recoverPanics closure hands to its
\* caller when its body ended with (err, panicking): a recovered panic becomes
\* the named result err, an unrecovered one keeps unwinding.
Deferred(e, panicking) ==
    IF panicking = NilErr
    THEN [err |-> e, panic |-> NilErr]
    ELSE LET internalErr == recoverPanics(panicking)
         IN  IF internalErr # NilErr
             THEN [err |-> internalErr, panic |-> NilErr]
             ELSE [err |-> e, panic |-> panicking]

\* inter.Invoke(funcName) with the given outcome
Invoke(funcName, out) ==
    CASE out = "ok"    -> [err |-> NilErr, panic |-> NilErr]
      [] out = "err"   -> [err |-> Error("error", funcName), panic |-> NilErr]
      [] out = "panic" -> [err |-> NilErr, panic |-> Error("panic", funcName)]

\* invokeTestFunction
invokeTestFunction(funcName, out) ==
    LET r == Invoke(funcName, out)
    IN  Deferred(r.err, r.panic) @@ [invoked |-> TRUE]

NotInvoked == [err |-> NilErr, panic |-> NilErr, invoked |-> FALSE]

runTestSetup(script, out) ==
    IF ~hasSetup(script) THEN NotInvoked
    ELSE invokeTestFunction(setupFunctionName, out)

runTestTearDown(script, out) ==
    IF ~hasTearDown(script) THEN NotInvoked
    ELSE invokeTestFunction(tearDownFunctionName, out)

runBeforeEach(script, out) ==
    IF ~hasBeforeEach(script) THEN NotInvoked
    ELSE invokeTestFunction(beforeEachFunctionName, out)

runAfterEach(script, out) ==
    IF ~hasAfterEach(script) THEN NotInvoked
    ELSE invokeTestFunction(afterEachFunctionName, out)

(***************************************************************************)
(* Loading a script.                                                       *)
(***************************************************************************)
\* CheckTestSignatures without the check of the return type annotation
RECURSIVE CheckTestSignaturesNoReturnCheck(_)
CheckTestSignaturesNoReturnCheck(decls) ==
    IF decls = <<>> THEN NilErr
    ELSE LET funcDecl == Head(decls)
         IN  IF ~HasPrefix(funcDecl.name, testFunctionPrefix)
             THEN CheckTestSignaturesNoReturnCheck(Tail(decls))
             ELSE IF funcDecl.hasParams
             THEN Error("test functions should have no arguments", <<>>)
             ELSE CheckTestSignaturesNoReturnCheck(Tail(decls))

\* The loop of parseCheckAndInterpret over the declarations: the error of
\* the first test-prefixed function with parameters or a return type.
RECURSIVE CheckTestSignatures(_)
CheckTestSignatures(decls) ==
    IF decls = <<>> THEN NilErr
    ELSE LET funcDecl == Head(decls)
         IN  IF ~HasPrefix(funcDecl.name, testFunctionPrefix)
             THEN CheckTestSignatures(Tail(decls))
             ELSE IF funcDecl.hasParams
             THEN Error("test functions should have no arguments", <<>>)
             ELSE IF funcDecl.hasReturn
             THEN Error("test functions should have no return values", <<>>)
             ELSE CheckTestSignatures(Tail(decls))

\* parseCheckAndInterpret: checked is the outcome of ParseAndCheckProgram,
\* interp the outcome of env.Interpret.
parseCheckAndInterpret(script, checked, interp) ==
    IF ~checked
    THEN [err |-> Error("parse/check error", <<>>), panic |-> NilErr]
    ELSE IF CheckTestSignatures(FunctionDeclarations(script)) # NilErr
    THEN [err |-> CheckTestSignatures(FunctionDeclarations(script)), panic |-> NilErr]
    ELSE CASE interp = "ok"    -> [err |-> NilErr, panic |-> NilErr]
           [] interp = "err"   -> [err |-> Error("interpret error", <<>>), panic |-> NilErr]
           [] interp = "panic" -> [err |-> NilErr, panic |-> Error("panic", <<>>)]

(***************************************************************************)
(* Ordering of the test cases.                                             *)
(***************************************************************************)
\* the test-prefixed declarations, in declaration order (lines 270-278)
RECURSIVE CollectTestCases(_)
CollectTestCases(decls) ==
    IF decls = <<>> THEN <<>>
    ELSE IF HasPrefix(Head(decls).name, testFunctionPrefix)
         THEN <<Head(decls).name>> \o CollectTestCases(Tail(decls))
         ELSE CollectTestCases(Tail(decls))

\* math/rand stands outside the repository: a small multiplicative
\* congruential generator stands for rand.NewSource(seed) and its stream.
NewSource(seed) == (seed % 65536) + 2

RngNext(state) == (state * 75) % 65537

\* rng.Shuffle(n, swap): for i := n-1; i > 0; i-- { j := Int31n(i+1); swap(i, j) }
\* (positions are 1-based here: i+1 and j+1)
\* a swap that loses the element at i
SwapOverwriting(q, i, j) == [q EXCEPT ![i] = q[j]]

Swap(q, i, j) == [q EXCEPT ![i] = q[j], ![j] = q[i]]

RECURSIVE ShuffleFrom(_, _, _)
ShuffleFrom(q, i, state) ==
    IF i <= 0 THEN q
    ELSE LET next == RngNext(state)
             j == next % (i + 1)
         IN  ShuffleFrom(Swap(q, i + 1, j + 1), i - 1, next)

Shuffle(q, seed) == ShuffleFrom(q, Len(q) - 1, NewSource(seed))

\* the ordering with the guard of the shuffle off by one (seed >= 0)
OrderTestCasesFromZero(cases, seed) ==
    IF seed >= 0
    THEN Shuffle(cases, seed)
    ELSE cases

\* lines 279-284
OrderTestCases(cases, seed) ==
    IF seed > 0 THEN Shuffle(cases, seed) ELSE cases

(***************************************************************************)
(* Log collection.  Messages are tuples of characters, so that the         *)
(* replacement of "LOG:" and the quotedLog pattern are computed.           *)
(***************************************************************************)
MaxLogs == 2

logPrefix == <<"L", "O", "G", ":">>
quote == "\""

\* zerolog levels as far as Run tells them apart
Levels == {"debug", "nolevel"}

\* DBG LOG: "ok"   /   DBG LOG: A(x)   /   a message without the marker
LogMessages ==
    { logPrefix \o <<" ", quote, "o", "k", quote>>,
      logPrefix \o <<" ", "A", "(", "x", ")">>,
      <<quote, "a", quote, "b", quote>> }

\* positions where old occurs in s
Occurrences(s, old) ==
    { i \in 1..(Len(s) - Len(old) + 1) : SubSeq(s, i, i + Len(old) - 1) = old }

Min(S) == CHOOSE x \in S : \A y \in S : x <= y
Max(S) == CHOOSE x \in S : \A y \in S : x >= y

\* strings.Replace(s, old, new, 1)
ReplaceFirst(s, old, new) ==
    IF Occurrences(s, old) = {} THEN s
    ELSE LET i == Min(Occurrences(s, old))
         IN  SubSeq(s, 1, i - 1) \o new \o SubSeq(s, i + Len(old), Len(s))

\* quotedLog.FindStringSubmatch(s) for the pattern "(.*)": the leftmost
\* quote, the greedy group up to the last quote; <<>> when nothing matches
FindStringSubmatch(s) ==
    LET quotes == { i \in 1..Len(s) : s[i] = quote }
    IN  IF Cardinality(quotes) < 2 THEN <<>>
        ELSE <<SubSeq(s, Min(quotes), Max(quotes)),
               SubSeq(s, Min(quotes) + 1, Max(quotes) - 1)>>

\* a variant of Run that keeps only the latest message
logCollectionHookRunOverwriting(Logs, level, msg) ==
    IF level # "nolevel" THEN <<msg>> ELSE Logs
\* logCollectionHook.Run: h.Logs after the hook saw (level, msg)
logCollectionHookRun(Logs, level, msg) ==
    IF level # "nolevel"
    THEN LET logMsg == ReplaceFirst(msg, logPrefix, <<>>)
             match == FindStringSubmatch(logMsg)
         IN  Append(Logs, IF Len(match) > 0 THEN match[2] ELSE logMsg)
    ELSE Logs

(***************************************************************************)
(* The emulator backend.  The ledger (the emulator's Blockchain) stands     *)
(* outside the repository; it is described by what the backend observes:   *)
(* the sequence number of the service key, the transactions queued in the  *)
(* pending block, how many of them have been executed, and the reply to    *)
(* each request, which may be a failure at any time.                       *)
(***************************************************************************)
MaxPending == 2
MaxSequence == 2

Blockchain(seq, pending, executed) ==
    [serviceSeq |-> seq, pending |-> pending, executed |-> executed]

\* e.blockchain.ServiceKey().SequenceNumber
ServiceKeySequenceNumber(chain) == chain.serviceSeq

Transaction(seq, kind) == [seq |-> seq, kind |-> kind]
NoTransaction == Transaction(-1, "none")

\* a variant of newTransaction that ignores the pending offset
newTransactionWithoutOffset(chain, offset, kind) ==
    Transaction(ServiceKeySequenceNumber(chain), kind)
\* newTransaction: the proposal key carries the sequence number of the service
\* key plus the pending offset
newTransaction(chain, offset, kind) ==
    Transaction(ServiceKeySequenceNumber(chain) + offset, kind)

\* e.blockchain.AddTransaction(tx): queued unless the ledger refuses
LedgerAddTransaction(chain, tx, ok) ==
    IF ok THEN [chain EXCEPT !.pending = Append(@, tx)] ELSE chain

\* the replies of e.blockchain.ExecuteNextTransaction
LedgerReplies == {"ok", "executionError", "ledgerError"}

\* the reply to a request whose execution would go as `out`: nothing left to
\* execute is reported as such, and a transaction whose sequence number is not
\* the service key's fails in execution
LedgerReply(chain, out) ==
    IF chain.executed >= Len(chain.pending) THEN "exhausted"
    ELSE IF out = "ok" /\ chain.pending[chain.executed + 1].seq # chain.serviceSeq
         THEN "executionError"
         ELSE out

\* e.blockchain.ExecuteNextTransaction(): an executed transaction whose
\* sequence number matched advances the sequence number of the service key
LedgerExecuteNextTransaction(chain, out) ==
    LET reply == LedgerReply(chain, out)
    IN  IF reply \in {"exhausted", "ledgerError"} THEN chain
        ELSE [chain EXCEPT
                 !.executed = @ + 1,
                 !.serviceSeq =
                     IF chain.pending[chain.executed + 1].seq = @ THEN @ + 1 ELSE @]

\* e.blockchain.CommitBlock(): the pending block is sealed, a new one begins
LedgerCommitBlock(chain, ok) ==
    IF ok THEN [chain EXCEPT !.pending = <<>>, !.executed = 0] ELSE chain

\* the state of an EmulatorBackend
Backend(offset, chain) == [blockOffset |-> offset, blockchain |-> chain]

\* stdlib.TransactionResult, or nil
TransactionResult(isNil, e) == [isNil |-> isNil, Error |-> e]

\* a variant that reports every failure of the ledger as "nothing pending"
TransactionResultOfNilOnFailure(reply) ==
    CASE reply \in {"exhausted", "ledgerError"} -> TransactionResult(TRUE, NilErr)
      [] reply = "executionError" -> TransactionResult(FALSE, Error("execution", <<>>))
      [] OTHER -> TransactionResult(FALSE, NilErr)
\* lines 267-288: the result ExecuteNextTransaction makes of the ledger's reply
TransactionResultOf(reply) ==
    CASE reply = "exhausted" -> TransactionResult(TRUE, NilErr)
      [] reply = "ledgerError" -> TransactionResult(FALSE, Error("ledger", <<>>))
      [] reply = "executionError" -> TransactionResult(FALSE, Error("execution", <<>>))
      [] OTHER -> TransactionResult(FALSE, NilErr)

\* a variant of ExecuteNextTransaction that takes an executed transaction off
\* the pending offset
executeNextTransactionConsuming(e, out) ==
    [e |-> Backend(IF LedgerReply(e.blockchain, out) = "ok" /\ e.blockOffset > 0
                   THEN e.blockOffset - 1 ELSE e.blockOffset,
                   LedgerExecuteNextTransaction(e.blockchain, out)),
     result |-> TransactionResultOf(LedgerReply(e.blockchain, out))]
\* ExecuteNextTransaction
executeNextTransaction(e, out) ==
    [e |-> Backend(e.blockOffset, LedgerExecuteNextTransaction(e.blockchain, out)),
     result |-> TransactionResultOf(LedgerReply(e.blockchain, out))]

\* a variant of CommitBlock that resets the offset only after a commit
commitBlockResetOnSuccess(e, ok) ==
    [e |-> Backend(IF ok THEN 0 ELSE e.blockOffset, LedgerCommitBlock(e.blockchain, ok)),
     err |-> IF ok THEN NilErr ELSE Error("commit", <<>>)]
\* a variant of CommitBlock that leaves the offset alone
commitBlockWithoutReset(e, ok) ==
    [e |-> Backend(e.blockOffset, LedgerCommitBlock(e.blockchain, ok)),
     err |-> IF ok THEN NilErr ELSE Error("commit", <<>>)]
\* CommitBlock: the offset is reset, then the ledger is asked to commit
commitBlock(e, ok) ==
    [e |-> Backend(0, LedgerCommitBlock(e.blockchain, ok)),
     err |-> IF ok THEN NilErr ELSE Error("commit", <<>>)]

\* replaceImports panics when a configuration is in use and the code does not
\* parse
replaceImportsPanics(configured, parses) == configured /\ ~parses

(***************************************************************************)
(* Import rewriting.  Source code is a sequence of units, each standing    *)
(* for a run of bytes: the head of an import declaration ("import X from"),*)
(* a string literal or an address literal (the locations an import may     *)
(* name), other text, and text the parser rejects.  Offsets count units.   *)
(***************************************************************************)
MaxCode == 4

Unit(kind, val) == [kind |-> kind, val |-> val]

StringPaths == {"a", "b"}
Addresses == {1, 2}

Units ==
    { Unit("import", 0), Unit("text", 1), Unit("text", 2), Unit("junk", 0) }
        \cup { Unit("string", p) : p \in StringPaths }
        \cup { Unit("address", 1) }

Codes == UNION { [1..n -> Units] : n \in 0..MaxCode }

IsLocation(u) == u.kind \in {"string", "address"}

\* the positions of the import declarations of the code: each begins with the
\* head of the declaration and ends with its location
ImportHeads(code) == { i \in 1..Len(code) : code[i].kind = "import" }

\* parser.ParseProgram accepts the code when every import declaration is
\* complete, every location literal belongs to one, and no text is rejected
Parses(code) ==
    /\ \A i \in 1..Len(code) : code[i].kind # "junk"
    /\ \A i \in ImportHeads(code) : i < Len(code) /\ IsLocation(code[i + 1])
    /\ \A i \in 1..Len(code) :
          IsLocation(code[i]) => (i > 1 /\ code[i - 1].kind = "import")

\* sequence of the elements of a set of numbers, ascending
RECURSIVE Ascending(_)
Ascending(S) ==
    IF S = {} THEN <<>> ELSE <<Min(S)>> \o Ascending(S \ {Min(S)})

\* an import declaration as the parser reports it: the offsets (from zero) of
\* its location and of its last byte, and its location
ImportDeclaration(code, i) ==
    [LocationPos |-> i, EndPos |-> i, Location |-> code[i + 1]]

\* program.ImportDeclarations(), in source order
ImportDeclarations(code) ==
    LET heads == Ascending(ImportHeads(code))
    IN  [k \in 1..Len(heads) |-> ImportDeclaration(code, heads[k])]

\* code[from:to]
Slice(code, from, to) == SubSeq(code, from + 1, to)

\* *stdlib.Configuration, or nil
NilConfiguration == [isNil |-> TRUE, Addresses |-> <<>>]
Configuration(addresses) == [isNil |-> FALSE, Addresses |-> addresses]

Configurations ==
    { NilConfiguration,
      Configuration(<<>>),
      Configuration([p \in {"a"} |-> 1]),
      Configuration([p \in {"a", "b"} |-> IF p = "a" THEN 2 ELSE 1]) }

\* fmt.Sprintf("0x%s", address)
AddressLiteral(address) == Unit("address", address)

RECURSIVE RewriteLoop(_, _, _, _, _)
\* a variant of the loop that keeps the location literal in front of the
\* address it writes
RewriteLoopKeepingLocation(code, addresses, decls, importDeclEnd, sb) ==
    IF decls = <<>> THEN sb \o Slice(code, importDeclEnd, Len(code))
    ELSE LET d == Head(decls)
             end == d.EndPos + 1
         IN  IF d.Location.kind = "string" /\ d.Location.val \in DOMAIN addresses
             THEN RewriteLoop(code, addresses, Tail(decls), end,
                      sb \o Slice(code, importDeclEnd, end)
                         \o <<AddressLiteral(addresses[d.Location.val])>>)
             ELSE RewriteLoop(code, addresses, Tail(decls), end,
                      sb \o Slice(code, importDeclEnd, end))
\* lines 415-447: the loop over the import declarations; sb is the string
\* builder, importDeclEnd the offset after the previous declaration
RewriteLoop(code, addresses, decls, importDeclEnd, sb) ==
    IF decls = <<>> THEN sb \o Slice(code, importDeclEnd, Len(code))
    ELSE LET d == Head(decls)
             end == d.EndPos + 1
         IN  IF d.Location.kind = "string" /\ d.Location.val \in DOMAIN addresses
             THEN RewriteLoop(code, addresses, Tail(decls), end,
                      sb \o Slice(code, importDeclEnd, d.LocationPos)
                         \o <<AddressLiteral(addresses[d.Location.val])>>)
             ELSE RewriteLoop(code, addresses, Tail(decls), end,
                      sb \o Slice(code, importDeclEnd, end))

\* what a call of replaceImports gives: the code it returns, or a panic
Rewritten(code, panic) == [code |-> code, panic |-> panic]

\* a variant of replaceImports that parses the code before it looks at the
\* configuration
replaceImportsParsingFirst(configuration, code) ==
    IF ~Parses(code) THEN Rewritten(<<>>, TRUE)
    ELSE IF configuration.isNil THEN Rewritten(code, FALSE)
    ELSE Rewritten(RewriteLoop(code, configuration.Addresses,
                               ImportDeclarations(code), 0, <<>>), FALSE)
\* a variant of replaceImports that demands a configured address for every
\* string import
replaceImportsRequiringAll(configuration, code) ==
    IF configuration.isNil THEN Rewritten(code, FALSE)
    ELSE IF ~Parses(code) THEN Rewritten(<<>>, TRUE)
    ELSE IF \E i \in ImportHeads(code) :
                /\ code[i + 1].kind = "string"
                /\ code[i + 1].val \notin DOMAIN configuration.Addresses
    THEN Rewritten(<<>>, TRUE)
    ELSE Rewritten(RewriteLoop(code, configuration.Addresses,
                               ImportDeclarations(code), 0, <<>>), FALSE)
\* replaceImports
replaceImports(configuration, code) ==
    IF configuration.isNil THEN Rewritten(code, FALSE)
    ELSE IF replaceImportsPanics(~configuration.isNil, Parses(code))
    THEN Rewritten(<<>>, TRUE)
    ELSE Rewritten(RewriteLoop(code, configuration.Addresses,
                               ImportDeclarations(code), 0, <<>>), FALSE)

(***************************************************************************)
(* Imports of the test script.  A location is an identifier, a string or   *)
(* an address with the name of a contract.                                 *)
(***************************************************************************)
Location(kind, name) == [kind |-> kind, name |-> name]

CryptoCheckerLocation == Location("identifier", "Crypto")
TestContractLocation == Location("identifier", "Test")
BlockchainHelpersLocation == Location("identifier", "BlockchainHelpers")

Locations ==
    { CryptoCheckerLocation, TestContractLocation, BlockchainHelpersLocation,
      Location("identifier", "Other"),
      Location("string", "Crypto"),
      Location("string", "contract.cdc"),
      Location("address", "Deployed") }

\* TestRunner.importResolver: nil, or the function of the embedder
Resolvers == {"nil", "set"}
\* what the resolver returns for a location: code, or an error
Resolutions == {"code", "error"}
\* what the ledger returns for the account of an address location: an error,
\* an account with the contract, an account without it
LedgerAccounts == {"error", "contract", "none"}
\* the imports the imported program makes itself
NestedImports == {"none", "Test", "address", "unknownAddress", "other"}

\* what handling an import gives: the collaborators consulted, in order, where
\* the code that was checked came from, and the error returned
Imported(consulted, codeFrom, err) ==
    [consulted |-> consulted, codeFrom |-> codeFrom, err |-> err]

\* a variant of the check of the imported program that refuses every import
\* the program makes except the Test contract
checkImportedRefusingAddresses(consulted, codeFrom, nested, checked) ==
    IF nested \in {"other", "address", "unknownAddress"}
    THEN Imported(consulted, codeFrom, Error("nested imports are not supported", <<>>))
    ELSE Imported(consulted, codeFrom, IF checked THEN NilErr ELSE Error("check", <<>>))
\* lines 700-756: the imported program is parsed and checked; an import it
\* makes is served from the Test contract or the ledger, or refused
checkImported(consulted, codeFrom, nested, checked) ==
    IF nested = "other"
    THEN Imported(consulted, codeFrom, Error("nested imports are not supported", <<>>))
    ELSE IF nested = "unknownAddress"
    THEN Imported(Append(consulted, "ledger"), codeFrom, Error("ledger", <<>>))
    ELSE LET c == IF nested = "address" THEN Append(consulted, "ledger") ELSE consulted
         IN  Imported(c, codeFrom, IF checked THEN NilErr ELSE Error("check", <<>>))

\* a variant of parseAndCheckImport without the fallback to the ledger
parseAndCheckImportWithoutFallback(importResolver, location, resolved, ledger, nested, checked) ==
    IF importResolver = "nil"
    THEN Imported(<<>>, "none", Error("ImportResolverNotProvidedError", <<>>))
    ELSE IF resolved = "error"
    THEN Imported(<<"resolver">>, "none", Error("resolver", <<>>))
    ELSE checkImported(<<"resolver">>, "resolver", nested, checked)
\* lines 669-762
parseAndCheckImport(importResolver, location, resolved, ledger, nested, checked) ==
    IF importResolver = "nil"
    THEN Imported(<<>>, "none", Error("ImportResolverNotProvidedError", <<>>))
    ELSE IF resolved = "error"
    THEN IF location.kind = "address"
         THEN IF ledger = "error"
              THEN Imported(<<"resolver", "ledger">>, "none", Error("ledger", <<>>))
              ELSE checkImported(<<"resolver", "ledger">>,
                                 IF ledger = "contract" THEN "ledger" ELSE "empty",
                                 nested, checked)
         ELSE Imported(<<"resolver">>, "none", Error("resolver", <<>>))
    ELSE checkImported(<<"resolver">>, "resolver", nested, checked)

\* what an import handler gives: as Imported, and the panic it raised
Handled(r, panic) ==
    [consulted |-> r.consulted, codeFrom |-> r.codeFrom, err |-> r.err,
     panic |-> panic]

\* a variant of checkerImportHandler without the case of the helpers
checkerImportHandlerWithoutHelpers(importResolver, location, resolved, ledger, nested, checked) ==
    IF location \in {CryptoCheckerLocation, TestContractLocation}
    THEN Handled(Imported(<<>>, "builtin", NilErr), NilErr)
    ELSE Handled(parseAndCheckImport(importResolver, location, resolved, ledger,
                                     nested, checked), NilErr)
\* lines 467-500
checkerImportHandler(importResolver, location, resolved, ledger, nested, checked) ==
    IF location \in {CryptoCheckerLocation, TestContractLocation,
                     BlockchainHelpersLocation}
    THEN Handled(Imported(<<>>, "builtin", NilErr), NilErr)
    ELSE Handled(parseAndCheckImport(importResolver, location, resolved, ledger,
                                     nested, checked), NilErr)

\* lines 613-649: an error of the import and a failure to create the
\* sub-interpreter are panics
interpreterImportHandler(importResolver, location, resolved, ledger, nested, checked, sub) ==
    LET r == IF location \in {CryptoCheckerLocation, TestContractLocation,
                              BlockchainHelpersLocation}
             THEN Imported(<<>>, "builtin", NilErr)
             ELSE parseAndCheckImport(importResolver, location, resolved, ledger,
                                      nested, checked)
    IN  IF r.err # NilErr THEN Handled(Imported(r.consulted, r.codeFrom, NilErr), r.err)
        ELSE IF ~sub THEN Handled(r, Error("NewSubInterpreter", <<>>))
        ELSE Handled(r, NilErr)

(***************************************************************************)
(* Contract values.  contractInvocations holds, by the name of a contract, *)
(* the constructor arguments of its deployment.                            *)
(***************************************************************************)
ContractNames == {"Foo", "Bar"}
ConstructorArguments == {<<>>, <<1>>, <<2>>}

\* the locations a composite type may come from
TypeLocations ==
    { CryptoCheckerLocation, TestContractLocation,
      Location("identifier", "Other"),
      Location("string", "contract.cdc"),
      Location("address", "0x1") }

\* the deploy operation records the constructor arguments under the name of
\* the contract
recordInvocation(invocations, name, arguments) ==
    [n \in DOMAIN invocations \cup {name} |->
        IF n = name THEN arguments ELSE invocations[n]]

\* what the handler gives: the built-in contract, the plain constructor, or
\* the composite value made by the constructor from the arguments
ContractValue(kind, arguments, panic) ==
    [kind |-> kind, arguments |-> arguments, panic |-> panic]

\* a variant of the handler that falls back to the plain constructor when no
\* invocation is recorded
interpreterContractValueHandlerDefaulting(invocations, location, identifier, invoked) ==
    IF location \in {CryptoCheckerLocation, TestContractLocation}
    THEN IF invoked THEN ContractValue("builtin", <<>>, NilErr)
         ELSE ContractValue("none", <<>>, Error("contract", <<>>))
    ELSE IF location.kind = "address" /\ identifier \in DOMAIN invocations
    THEN IF invoked THEN ContractValue("composite", invocations[identifier], NilErr)
         ELSE ContractValue("none", <<>>, Error("invoke", <<>>))
    ELSE ContractValue("constructor", <<>>, NilErr)
\* lines 541-609
interpreterContractValueHandler(invocations, location, identifier, invoked) ==
    IF location \in {CryptoCheckerLocation, TestContractLocation}
    THEN IF invoked THEN ContractValue("builtin", <<>>, NilErr)
         ELSE ContractValue("none", <<>>, Error("contract", <<>>))
    ELSE IF location.kind = "address"
    THEN IF identifier \notin DOMAIN invocations
         THEN ContractValue("none", <<>>, Error("contract invocation not found", <<>>))
         ELSE IF invoked
         THEN ContractValue("composite", invocations[identifier], NilErr)
         ELSE ContractValue("none", <<>>, Error("invoke", <<>>))
    ELSE ContractValue("constructor", <<>>, NilErr)

(***************************************************************************)
(* The lint tool: the analyzers a run enables.                             *)
(***************************************************************************)
MaxFlags == 2

\* the names of analyzers.Analyzers, and a name it does not hold
RegisteredAnalyzers == {"reference-to-optional", "external-mutation"}
AnalyzerNames == RegisteredAnalyzers \cup {"unknown"}

\* the values of the -analyze flags, in the order given
AnalyzerFlags == UNION { [1..n -> AnalyzerNames] : n \in 0..MaxFlags }

\* the orders in which a range over analyzers.Analyzers may deliver it
RangeOrders ==
    { o \in [1..Cardinality(RegisteredAnalyzers) -> RegisteredAnalyzers] :
          \A i, j \in DOMAIN o : i # j => o[i] # o[j] }

\* -csv, -directory, -address, -transaction, or none of them
Targets == {"csv", "directory", "address", "transaction", "none"}

Enabled(analyzers, panic) == [analyzers |-> analyzers, panic |-> panic]

RECURSIVE EnableNamed(_, _)
\* lines 96-103: the loop over the -analyze flags
EnableNamed(analyzersFlag, enabled) ==
    IF analyzersFlag = <<>> THEN Enabled(enabled, NilErr)
    ELSE IF Head(analyzersFlag) \notin RegisteredAnalyzers
    THEN Enabled(enabled, Error("unknown analyzer", <<Head(analyzersFlag)>>))
    ELSE EnableNamed(Tail(analyzersFlag), Append(enabled, Head(analyzersFlag)))

\* a variant of the selection for which -load-only yields to -analyze
enabledAnalyzersNamedFirst(loadOnly, analyzersFlag, order) ==
    IF Len(analyzersFlag) > 0 THEN EnableNamed(analyzersFlag, <<>>)
    ELSE IF loadOnly THEN Enabled(<<>>, NilErr)
    ELSE Enabled(order, NilErr)
\* lines 91-109
enabledAnalyzers(loadOnly, analyzersFlag, order) ==
    IF loadOnly THEN Enabled(<<>>, NilErr)
    ELSE IF Len(analyzersFlag) > 0 THEN EnableNamed(analyzersFlag, <<>>)
    ELSE Enabled(order, NilErr)

(***************************************************************************)
(* Accounts and signing.                                                   *)
(***************************************************************************)
MaxAccounts == 2

\* the keys the key generator may hand out
PublicKeys == {"k1", "k2"}

\* the signer generated together with a public key
SignerOf(publicKey) == <<"signer", publicKey>>
NilSigner == <<"signer", "nil">>
ServiceSigner == <<"signer", "service">>

\* stdlib.Account
Account(address, publicKey) == [Address |-> address, PublicKey |-> publicKey]
NoAccount == Account(-1, "none")
ServiceAddress == 0

\* an account this backend never created
UnknownAccount == Account(MaxAccounts + 2, "k1")

\* a variant of CreateAccount that starts a new mapping at every creation
createAccountForgetting(accountKeys, created, publicKey, ok) ==
    IF ~ok THEN [accountKeys |-> accountKeys, account |-> NoAccount,
                 err |-> Error("create", <<>>)]
    ELSE [accountKeys |-> [a \in {created + 1} |->
                              [k \in {publicKey} |-> SignerOf(publicKey)]],
          account |-> Account(created + 1, publicKey),
          err |-> NilErr]
\* CreateAccount: the ledger, which has created `created` accounts so far,
\* hands out the next address; the entry of that address is replaced by the
\* mapping of the new key to its signer
createAccount(accountKeys, created, publicKey, ok) ==
    IF ~ok THEN [accountKeys |-> accountKeys, account |-> NoAccount,
                 err |-> Error("create", <<>>)]
    ELSE [accountKeys |-> [a \in DOMAIN accountKeys \cup {created + 1} |->
                              IF a = created + 1
                              THEN [k \in {publicKey} |-> SignerOf(publicKey)]
                              ELSE accountKeys[a]],
          account |-> Account(created + 1, publicKey),
          err |-> NilErr]

\* e.accountKeys[account.Address][publicKey].signer: the zero value when the
\* address or the key is not recorded
KeyInfoSigner(accountKeys, account) ==
    IF account.Address \in DOMAIN accountKeys
       /\ account.PublicKey \in DOMAIN accountKeys[account.Address]
    THEN accountKeys[account.Address][account.PublicKey]
    ELSE NilSigner

Signature(kind, address, signer) == [kind |-> kind, address |-> address, signer |-> signer]

\* what signTransaction did: the signatures it applied, in order, and the
\* error it returned or the panic that left it
Signed(signatures, err, panic) == [signatures |-> signatures, err |-> err, panic |-> panic]

\* lines 252-263: the envelope signature of the service account; failAt is
\* the step that fails, if any: steps 1..n are the payload signatures, step
\* n+1 obtains the service signer, step n+2 signs the envelope
SignEnvelope(n, signatures, failAt) ==
    IF failAt \in {n + 1, n + 2} THEN Signed(signatures, Error("sign", <<>>), FALSE)
    ELSE Signed(Append(signatures, Signature("envelope", ServiceAddress, ServiceSigner)),
                NilErr, FALSE)

RECURSIVE SignPayloads(_, _, _, _, _)
\* a variant of the loop that walks the signers from the first to the last
SignPayloadsForward(accountKeys, signerAccounts, i, signatures, failAt) ==
    LET n == Len(signerAccounts)
        j == n + 1 - i
    IN  IF i < 1 THEN SignEnvelope(n, signatures, failAt)
        ELSE LET signer == KeyInfoSigner(accountKeys, signerAccounts[j])
             IN  IF signer = NilSigner THEN Signed(signatures, NilErr, TRUE)
                 ELSE IF failAt = n - i + 1
                 THEN Signed(signatures, Error("sign", <<>>), FALSE)
                 ELSE SignPayloads(accountKeys, signerAccounts, i - 1,
                          Append(signatures,
                                 Signature("payload", signerAccounts[j].Address, signer)),
                          failAt)
\* lines 239-250: the loop from the last signer to the first; signing with
\* the zero signer of an unrecorded account is a nil dereference
SignPayloads(accountKeys, signerAccounts, i, signatures, failAt) ==
    LET n == Len(signerAccounts)
    IN  IF i < 1 THEN SignEnvelope(n, signatures, failAt)
        ELSE LET signer == KeyInfoSigner(accountKeys, signerAccounts[i])
             IN  IF signer = NilSigner THEN Signed(signatures, NilErr, TRUE)
                 ELSE IF failAt = n - i + 1
                 THEN Signed(signatures, Error("sign", <<>>), FALSE)
                 ELSE SignPayloads(accountKeys, signerAccounts, i - 1,
                          Append(signatures,
                                 Signature("payload", signerAccounts[i].Address, signer)),
                          failAt)

\* signTransaction
signTransaction(accountKeys, signerAccounts, failAt) ==
    SignPayloads(accountKeys, signerAccounts, Len(signerAccounts), <<>>, failAt)

\* the failure of a call that builds a transaction: the stage that fails by
\* itself, or else what signing made of it
FailureOf(stage, signing) ==
    IF stage \in {"export", "arguments"} THEN stage
    ELSE IF signing.panic THEN "signPanic"
    ELSE IF signing.err # NilErr THEN "sign"
    ELSE stage

\* stdlib.ScriptResult
ScriptResult(hasValue, e) == [hasValue |-> hasValue, Error |-> e]

\* where RunScript may fail
RunScriptFailures == {"none", "arguments", "ledger", "execution", "decode"}

\* what a call of RunScript did: the result it returned or the panic that
\* left it, and the code it handed to the ledger (with whether it did)
ScriptOutcome(result, panic, submitted, code) ==
    [result |-> result, panic |-> panic, submitted |-> submitted, code |-> code]

\* RunScript: encode the arguments, rewrite the imports, execute, decode
runScript(configuration, code, fail) ==
    LET rewritten == replaceImports(configuration, code)
    IN  IF fail = "arguments"
        THEN ScriptOutcome(ScriptResult(FALSE, Error(fail, <<>>)), NilErr, FALSE, <<>>)
        ELSE IF rewritten.panic
        THEN ScriptOutcome(ScriptResult(FALSE, NilErr), Error("panic", <<>>), FALSE, <<>>)
        ELSE IF fail # "none"
        THEN ScriptOutcome(ScriptResult(FALSE, Error(fail, <<>>)), NilErr, TRUE,
                           rewritten.code)
        ELSE ScriptOutcome(ScriptResult(TRUE, NilErr), NilErr, TRUE, rewritten.code)

\* what the file resolver does with a path, "unset" when there is none
FileResolutions == {"unset", "ok", "error"}

\* ReadFile
readFile(resolution) ==
    CASE resolution = "unset" -> Error("FileResolverNotProvidedError", <<>>)
      [] resolution = "error" -> Error("file", <<>>)
      [] OTHER -> NilErr

\* where building and submitting a transaction may fail
AddTransactionFailures == {"none", "arguments", "sign", "submit"}
DeployContractFailures == {"none", "export", "arguments", "sign", "submit"}

\* what a call of the backend did: the state it leaves, the error it returns,
\* the panic that left it, the transaction it built
Outcome(e, err, panic, tx) == [e |-> e, err |-> err, panic |-> panic, tx |-> tx]

\* a variant of AddTransaction that counts a transaction the ledger refused
addTransactionCountingRefused(e, configured, parses, fail) ==
    LET tx == newTransaction(e.blockchain, e.blockOffset, "transaction")
    IN  IF replaceImportsPanics(configured, parses)
        THEN Outcome(e, NilErr, Error("panic", <<>>), NoTransaction)
        ELSE IF fail = "signPanic"
        THEN Outcome(e, NilErr, Error("panic", <<>>), tx)
        ELSE IF fail \in {"arguments", "sign"}
        THEN Outcome(e, Error(fail, <<>>), NilErr, tx)
        ELSE Outcome(Backend(e.blockOffset + 1,
                             LedgerAddTransaction(e.blockchain, tx, fail = "none")),
                     IF fail = "none" THEN NilErr ELSE Error(fail, <<>>), NilErr, tx)
\* AddTransaction
addTransaction(e, configured, parses, fail) ==
    LET tx == newTransaction(e.blockchain, e.blockOffset, "transaction")
    IN  IF replaceImportsPanics(configured, parses)
        THEN Outcome(e, NilErr, Error("panic", <<>>), NoTransaction)
        ELSE IF fail = "signPanic"
        THEN Outcome(e, NilErr, Error("panic", <<>>), tx)
        ELSE IF fail # "none"
        THEN Outcome(e, Error(fail, <<>>), NilErr, tx)
        ELSE Outcome(Backend(e.blockOffset + 1,
                             LedgerAddTransaction(e.blockchain, tx, TRUE)),
                     NilErr, NilErr, tx)

\* DeployContract: build, sign and submit the deployment, execute the next
\* pending transaction, commit the block
deployContract(e, configured, parses, fail, out, ok) ==
    LET tx == newTransaction(e.blockchain, e.blockOffset, "deployment")
        submitted == Backend(e.blockOffset + 1,
                             LedgerAddTransaction(e.blockchain, tx, TRUE))
        executed == executeNextTransaction(submitted, out)
        committed == commitBlock(executed.e, ok)
    IN  IF replaceImportsPanics(configured, parses)
        THEN Outcome(e, NilErr, Error("panic", <<>>), NoTransaction)
        ELSE IF fail = "export"
        THEN Outcome(e, Error(fail, <<>>), NilErr, NoTransaction)
        ELSE IF fail = "signPanic"
        THEN Outcome(e, NilErr, Error("panic", <<>>), tx)
        ELSE IF fail # "none"
        THEN Outcome(e, Error(fail, <<>>), NilErr, tx)
        ELSE IF executed.result.isNil
        THEN Outcome(executed.e, NilErr, Error("nil dereference", <<>>), tx)
        ELSE IF executed.result.Error # NilErr
        THEN Outcome(executed.e, executed.result.Error, NilErr, tx)
        ELSE Outcome(committed.e, committed.err, NilErr, tx)

(***************************************************************************)
(* State.                                                                  *)
(***************************************************************************)
VARIABLES
    pc,          \* position of the current call: "idle", a step, "done" (the
                 \* call returned) or "panicked" (a panic left the call)
    mode,        \* "none", "RunTest" or "RunTests"
    randomSeed,  \* TestRunner.randomSeed
    script,      \* the script of the current call
    funcName,    \* RunTest's funcName argument
    testCases,   \* RunTests' testCases, names in execution order
    idx,         \* position of the range loop over testCases
    results,     \* RunTests' named result `results`
    testErr,     \* testErr / testResult of the case just invoked
    ret,         \* what the call returned, meaningful when pc = "done"
    panicValue,  \* the panic that left the call, when pc = "panicked"
    loaded,      \* history: parseCheckAndInterpret returned without error
    trace        \* history: the invocations of the current call, in order

vars ==
    <<pc, mode, randomSeed, script, funcName, testCases, idx, results, testErr,
      ret, panicValue, loaded, trace>>

VARIABLES
    logs,        \* TestRunner.logCollection.Logs
    orderLog     \* history: script, seed and order of the last two RunTests
                 \* runs that reached the ordering of their cases

sessionVars == <<logs, orderLog>>

VARIABLES
    blockOffset,    \* EmulatorBackend.blockOffset
    blockchain,     \* the ledger behind EmulatorBackend.blockchain
    configuration,  \* EmulatorBackend.configuration
    crashed,        \* a panic left a call of the backend
    lastCall,       \* history: the latest call of the backend
    prevCall        \* history: the call before it

backendVars == <<blockOffset, blockchain, configuration, crashed, lastCall, prevCall>>

VARIABLES
    accountKeys,    \* EmulatorBackend.accountKeys
    created,        \* the number of accounts the ledger has created
    accounts,       \* history: the accounts CreateAccount returned
    lastDetail      \* history: code, signers and signatures of the latest call

accountVars == <<accountKeys, created, accounts, lastDetail>>

VARIABLES
    importResolver, \* TestRunner.importResolver
    lastImport      \* history: the latest import handled and what it gave

importVars == <<importResolver, lastImport>>

VARIABLES
    lintRun,             \* history: the latest run of the lint tool
    contractInvocations, \* the constructor arguments recorded by deployments
    lastValue,           \* history: the latest contract value asked for
    runLog               \* history: the calls of the runner that have ended

VARIABLES
    clientAccounts, \* flowkitClient.accounts
    activeAccount,  \* flowkitClient.activeAccount: an index of accounts, 0 for nil
    initialized,    \* Initialize has returned nil
    clientCall      \* history: the latest call of the client and the state before it

clientVars == <<clientAccounts, activeAccount, initialized, clientCall>>

toolVars == <<lintRun, contractInvocations, lastValue, runLog, clientVars>>

allVars == <<vars, sessionVars, backendVars, accountVars, importVars, toolVars>>

\* a call of the client: the method, its argument, the error it returned, the
\* panic that left it, and the accounts and the active account before it
ClientCall(op, arg, err, panic) ==
    [op |-> op, arg |-> arg, err |-> err, panic |-> panic,
     accounts |-> clientAccounts, active |-> activeAccount]

NoClientCall ==
    [op |-> "none", arg |-> <<>>, err |-> [kind |-> "nil", fn |-> <<>>],
     panic |-> [kind |-> "nil", fn |-> <<>>], accounts |-> <<>>, active |-> 0]

\* more of the latest call: the code it was given, the code it handed to the
\* ledger (with whether it did), the signers it was given, the signatures it
\* applied, the signing step that failed, and the account it returned
\* a contract value as the history keeps it: the location and the name of
\* the composite type, and what the handler gave
Value(location, identifier, v) ==
    [location |-> location, identifier |-> identifier, kind |-> v.kind,
     arguments |-> v.arguments, panic |-> v.panic]
NoValue ==
    Value(Location("none", "none"), "none", ContractValue("none", <<>>, NilErr))

\* a run of the lint tool: its flags, the analyzers it enabled, the panic
\* that ended it, and the target the analyzers were handed to
Run(loadOnly, analyzersFlag, target, e) ==
    [loadOnly |-> loadOnly, analyzersFlag |-> analyzersFlag,
     enabledAnalyzers |-> e.analyzers, panic |-> e.panic,
     target |-> IF e.panic = NilErr THEN target ELSE "none"]
NoRun == [loadOnly |-> FALSE, analyzersFlag |-> <<>>, enabledAnalyzers |-> <<>>,
          panic |-> NilErr, target |-> "unrun"]

\* an import as the history keeps it: the handler, the location, what the
\* resolver returned if it was called, and what the handler gave
Import(handler, location, resolved, ledger, nested, h) ==
    [handler |-> handler, location |-> location,
     resolved |-> IF h.consulted # <<>> THEN resolved ELSE "none",
     ledger |-> IF h.consulted # <<>> /\ resolved = "error" /\ location.kind = "address"
                THEN ledger ELSE "unasked",
     nested |-> IF h.codeFrom \in {"resolver", "ledger", "empty"} THEN nested ELSE "none",
     consulted |-> h.consulted, codeFrom |-> h.codeFrom, err |-> h.err,
     panic |-> h.panic]
NoImport ==
    Import("none", Location("none", "none"), "none", "none", "none",
           Handled(Imported(<<>>, "none", NilErr), NilErr))

Detail(code, submitted, submittedCode, signers, signatures, failAt, account) ==
    [code |-> code, submitted |-> submitted, submittedCode |-> submittedCode,
     signers |-> signers, signatures |-> signatures, failAt |-> failAt,
     account |-> account]
NoDetail == Detail(<<>>, FALSE, <<>>, <<>>, <<>>, 0, NoAccount)

\* a call of the backend as the history keeps it: the operation, what it
\* returned, the ledger's reply to an execution request, the transaction it
\* built, and the offset and service sequence number it started from
Call(op, err, panic, result, reply, tx, offset, base) ==
    [op |-> op, err |-> err, panic |-> panic, result |-> result, reply |-> reply,
     tx |-> tx, offset |-> offset, base |-> base]
\* what the history keeps of the call before the latest: a CommitBlock with
\* its error and the offset it started from, or that it was another call
Earlier(call) ==
    IF call.op = "CommitBlock"
    THEN [op |-> call.op, err |-> call.err, panic |-> call.panic, offset |-> call.offset]
    ELSE [op |-> "other", err |-> NilErr, panic |-> NilErr, offset |-> 0]
NoCall == Call("none", NilErr, NilErr, TransactionResult(TRUE, NilErr), "none",
               NoTransaction, 0, 0)

\* NewEmulatorBackend
BackendInit ==
    /\ blockOffset = 0
    /\ blockchain = Blockchain(0, <<>>, 0)
    /\ configuration = NilConfiguration
    /\ crashed = FALSE
    /\ lastCall = NoCall
    /\ prevCall = Earlier(NoCall)
    /\ accountKeys = <<>>
    /\ created = 0
    /\ accounts = {}
    /\ lastDetail = NoDetail

NoScript == [hooks |-> {}, funcs |-> <<>>]

NoReturn == [isNil |-> TRUE, items |-> <<>>, err |-> NilErr]

\* a returned (results, err); a nil slice or nil *Result has isNil
Returned(isNil, items, e) == [isNil |-> isNil, items |-> items, err |-> e]

\* one entry of the history of invocations
Invocation(kind, n, out) == [kind |-> kind, fn |-> n, out |-> out]

Log(r, kind, n, out) ==
    IF r.invoked THEN Append(trace, Invocation(kind, n, out)) ELSE trace

Init ==
    /\ pc = "idle"
    /\ mode = "none"
    /\ randomSeed = 0
    /\ script = NoScript
    /\ funcName = <<>>
    /\ testCases = <<>>
    /\ idx = 0
    /\ results = <<>>
    /\ testErr = NilErr
    /\ ret = NoReturn
    /\ panicValue = NilErr
    /\ loaded = FALSE
    /\ trace = <<>>
    /\ logs = <<>>
    /\ orderLog = <<>>
    /\ BackendInit
    /\ importResolver = "nil"
    /\ lastImport = NoImport
    /\ lintRun = NoRun
    /\ contractInvocations = <<>>
    /\ lastValue = NoValue
    /\ runLog = <<>>
    /\ clientAccounts = <<>>
    /\ activeAccount = 0
    /\ initialized = FALSE
    /\ clientCall = NoClientCall

\* the call returns (r, e)
Return(r) ==
    /\ pc' = "done"
    /\ ret' = r
    /\ panicValue' = NilErr

\* a panic reaches the deferred closure of RunTest / RunTests: recovered, it
\* becomes the call's err beside the current value of the named result;
\* otherwise it leaves the call
Unwind(panicking, isNil, items) ==
    LET d == Deferred(NilErr, panicking)
    IN  IF d.panic = NilErr
        THEN Return(Returned(isNil, items, d.err))
        ELSE /\ pc' = "panicked"
             /\ panicValue' = d.panic
             /\ ret' = NoReturn

\* the call goes on at the given position
Goto(next) ==
    /\ pc' = next
    /\ UNCHANGED <<ret, panicValue>>

(***************************************************************************)
(* WithRandomSeed                                                          *)
(***************************************************************************)
WithRandomSeed(seed) ==
    /\ pc = "idle"
    /\ randomSeed' = seed
    /\ UNCHANGED <<pc, mode, script, funcName, testCases, idx, results, testErr,
                   ret, panicValue, loaded, trace>>

(***************************************************************************)
(* RunTests                                                                *)
(***************************************************************************)
\* the call is made
RunTestsCall(s) ==
    /\ pc = "idle"
    /\ pc' = "RunTests:load"
    /\ mode' = "RunTests"
    /\ script' = s
    /\ funcName' = <<>>
    /\ testCases' = <<>>
    /\ idx' = 0
    /\ results' = <<>>
    /\ testErr' = NilErr
    /\ ret' = NoReturn
    /\ panicValue' = NilErr
    /\ loaded' = FALSE
    /\ trace' = <<>>
    /\ UNCHANGED randomSeed

\* lines 257-262
RunTestsLoad(checked, interp) ==
    /\ pc = "RunTests:load"
    /\ LET r == parseCheckAndInterpret(script, checked, interp)
       IN  /\ IF r.panic # NilErr THEN Unwind(r.panic, TRUE, <<>>)
              ELSE IF r.err # NilErr THEN Return(Returned(TRUE, <<>>, r.err))
              ELSE Goto("RunTests:setup")
           /\ loaded' = (r.panic = NilErr /\ r.err = NilErr)
    /\ results' = <<>>
    /\ UNCHANGED <<mode, randomSeed, script, funcName, testCases, idx, testErr, trace>>

\* lines 264-268
RunTestsSetup(out) ==
    /\ pc = "RunTests:setup"
    /\ LET r == runTestSetup(script, out)
       IN  /\ IF r.panic # NilErr THEN Unwind(r.panic, FALSE, results)
              ELSE IF r.err # NilErr THEN Return(Returned(TRUE, <<>>, r.err))
              ELSE Goto("RunTests:collect")
           /\ trace' = Log(r, "setup", setupFunctionName, out)
    /\ UNCHANGED <<mode, randomSeed, script, funcName, testCases, idx, results,
                   testErr, loaded>>

\* a variant of the ordering step that shuffles the list the previous run of
\* the same script left behind
RunTestsCollectReordering ==
    /\ pc = "RunTests:collect"
    /\ testCases' = OrderTestCases(
            IF orderLog # <<>> /\ orderLog[Len(orderLog)].script = script
            THEN orderLog[Len(orderLog)].order
            ELSE CollectTestCases(FunctionDeclarations(script)),
            randomSeed)
    /\ idx' = 1
    /\ Goto(IF Len(testCases') >= 1 THEN "RunTests:beforeEach" ELSE "RunTests:tearDown")
    /\ UNCHANGED <<mode, randomSeed, script, funcName, results, testErr, loaded, trace>>
\* lines 270-286: discovery, shuffle, entry of the loop
RunTestsCollect ==
    /\ pc = "RunTests:collect"
    /\ testCases' = OrderTestCases(CollectTestCases(FunctionDeclarations(script)), randomSeed)
    /\ idx' = 1
    /\ Goto(IF Len(testCases') >= 1 THEN "RunTests:beforeEach" ELSE "RunTests:tearDown")
    /\ UNCHANGED <<mode, randomSeed, script, funcName, results, testErr, loaded, trace>>

\* lines 289-293
RunTestsBeforeEach(out) ==
    /\ pc = "RunTests:beforeEach"
    /\ LET r == runBeforeEach(script, out)
       IN  /\ IF r.panic # NilErr THEN Unwind(r.panic, FALSE, results)
              ELSE IF r.err # NilErr THEN Return(Returned(TRUE, <<>>, r.err))
              ELSE Goto("RunTests:case")
           /\ trace' = Log(r, "beforeEach", beforeEachFunctionName, out)
    /\ UNCHANGED <<mode, randomSeed, script, funcName, testCases, idx, results,
                   testErr, loaded>>

\* line 295
RunTestsCase(out) ==
    /\ pc = "RunTests:case"
    /\ LET r == invokeTestFunction(testCases[idx], out)
       IN  /\ IF r.panic # NilErr THEN Unwind(r.panic, FALSE, results)
              ELSE Goto("RunTests:afterEach")
           /\ testErr' = r.err
           /\ trace' = Log(r, "case", testCases[idx], out)
    /\ UNCHANGED <<mode, randomSeed, script, funcName, testCases, idx, results, loaded>>

\* lines 297-301
RunTestsAfterEach(out) ==
    /\ pc = "RunTests:afterEach"
    /\ LET r == runAfterEach(script, out)
       IN  /\ IF r.panic # NilErr THEN Unwind(r.panic, FALSE, results)
              ELSE IF r.err # NilErr THEN Return(Returned(TRUE, <<>>, r.err))
              ELSE Goto("RunTests:append")
           /\ trace' = Log(r, "afterEach", afterEachFunctionName, out)
    /\ UNCHANGED <<mode, randomSeed, script, funcName, testCases, idx, results,
                   testErr, loaded>>

\* lines 303-307: the Result is appended and the loop goes on or ends
RunTestsAppend ==
    /\ pc = "RunTests:append"
    /\ results' = Append(results, Result(testCases[idx], testErr))
    /\ idx' = idx + 1
    /\ Goto(IF idx + 1 <= Len(testCases) THEN "RunTests:beforeEach" ELSE "RunTests:tearDown")
    /\ UNCHANGED <<mode, randomSeed, script, funcName, testCases, testErr, loaded, trace>>

\* lines 309-312
RunTestsTearDown(out) ==
    /\ pc = "RunTests:tearDown"
    /\ LET r == runTestTearDown(script, out)
       IN  /\ IF r.panic # NilErr THEN Unwind(r.panic, FALSE, results)
              ELSE Return(Returned(FALSE, results, r.err))
           /\ trace' = Log(r, "tearDown", tearDownFunctionName, out)
    /\ UNCHANGED <<mode, randomSeed, script, funcName, testCases, idx, results,
                   testErr, loaded>>

(***************************************************************************)
(* RunTest                                                                 *)
(***************************************************************************)
RunTestCall(s, n) ==
    /\ pc = "idle"
    /\ pc' = "RunTest:load"
    /\ mode' = "RunTest"
    /\ script' = s
    /\ funcName' = n
    /\ testCases' = <<>>
    /\ idx' = 0
    /\ results' = <<>>
    /\ testErr' = NilErr
    /\ ret' = NoReturn
    /\ panicValue' = NilErr
    /\ loaded' = FALSE
    /\ trace' = <<>>
    /\ UNCHANGED randomSeed

\* lines 215-218
RunTestLoad(checked, interp) ==
    /\ pc = "RunTest:load"
    /\ LET r == parseCheckAndInterpret(script, checked, interp)
       IN  /\ IF r.panic # NilErr THEN Unwind(r.panic, TRUE, <<>>)
              ELSE IF r.err # NilErr THEN Return(Returned(TRUE, <<>>, r.err))
              ELSE Goto("RunTest:setup")
           /\ loaded' = (r.panic = NilErr /\ r.err = NilErr)
    /\ UNCHANGED <<mode, randomSeed, script, funcName, testCases, idx, results,
                   testErr, trace>>

\* lines 220-224
RunTestSetup(out) ==
    /\ pc = "RunTest:setup"
    /\ LET r == runTestSetup(script, out)
       IN  /\ IF r.panic # NilErr THEN Unwind(r.panic, TRUE, <<>>)
              ELSE IF r.err # NilErr THEN Return(Returned(TRUE, <<>>, r.err))
              ELSE Goto("RunTest:beforeEach")
           /\ trace' = Log(r, "setup", setupFunctionName, out)
    /\ UNCHANGED <<mode, randomSeed, script, funcName, testCases, idx, results,
                   testErr, loaded>>

\* a variant of RunTest that goes on to the test function after beforeEach
\* returned an error
RunTestBeforeEachIgnoringError(out) ==
    /\ pc = "RunTest:beforeEach"
    /\ LET r == runBeforeEach(script, out)
       IN  /\ IF r.panic # NilErr THEN Unwind(r.panic, TRUE, <<>>)
              ELSE Goto("RunTest:case")
           /\ trace' = Log(r, "beforeEach", beforeEachFunctionName, out)
    /\ UNCHANGED <<mode, randomSeed, script, funcName, testCases, idx, results,
                   testErr, loaded>>
\* lines 226-230
RunTestBeforeEach(out) ==
    /\ pc = "RunTest:beforeEach"
    /\ LET r == runBeforeEach(script, out)
       IN  /\ IF r.panic # NilErr THEN Unwind(r.panic, TRUE, <<>>)
              ELSE IF r.err # NilErr THEN Return(Returned(TRUE, <<>>, r.err))
              ELSE Goto("RunTest:case")
           /\ trace' = Log(r, "beforeEach", beforeEachFunctionName, out)
    /\ UNCHANGED <<mode, randomSeed, script, funcName, testCases, idx, results,
                   testErr, loaded>>

\* line 232: inter.Invoke is called directly, under RunTest's deferred closure only
RunTestCase(out) ==
    /\ pc = "RunTest:case"
    /\ LET r == Invoke(funcName, out)
       IN  /\ IF r.panic # NilErr THEN Unwind(r.panic, TRUE, <<>>)
              ELSE Goto("RunTest:afterEach")
           /\ testErr' = r.err
           /\ trace' = Append(trace, Invocation("case", funcName, out))
    /\ UNCHANGED <<mode, randomSeed, script, funcName, testCases, idx, results, loaded>>

\* lines 234-238
RunTestAfterEach(out) ==
    /\ pc = "RunTest:afterEach"
    /\ LET r == runAfterEach(script, out)
       IN  /\ IF r.panic # NilErr THEN Unwind(r.panic, TRUE, <<>>)
              ELSE IF r.err # NilErr THEN Return(Returned(TRUE, <<>>, r.err))
              ELSE Goto("RunTest:tearDown")
           /\ trace' = Log(r, "afterEach", afterEachFunctionName, out)
    /\ UNCHANGED <<mode, randomSeed, script, funcName, testCases, idx, results,
                   testErr, loaded>>

\* lines 240-246
RunTestTearDown(out) ==
    /\ pc = "RunTest:tearDown"
    /\ LET r == runTestTearDown(script, out)
       IN  /\ IF r.panic # NilErr THEN Unwind(r.panic, TRUE, <<>>)
              ELSE Return(Returned(FALSE, <<Result(funcName, testErr)>>, r.err))
           /\ trace' = Log(r, "tearDown", tearDownFunctionName, out)
    /\ UNCHANGED <<mode, randomSeed, script, funcName, testCases, idx, results,
                   testErr, loaded>>

\* the caller has taken the returned values; the runner is ready for a new call
Finish ==
    /\ pc = "done"
    /\ pc' = "idle"
    /\ mode' = "none"
    /\ script' = NoScript
    /\ funcName' = <<>>
    /\ testCases' = <<>>
    /\ idx' = 0
    /\ results' = <<>>
    /\ testErr' = NilErr
    /\ ret' = NoReturn
    /\ panicValue' = NilErr
    /\ loaded' = FALSE
    /\ trace' = <<>>
    /\ UNCHANGED randomSeed

\* the steps of the runner leave the rest of the state alone
OutsideRunner == UNCHANGED <<sessionVars, backendVars, accountVars, importVars, toolVars>>

Next ==
    \/ \E seed \in Seeds : WithRandomSeed(seed) /\ OutsideRunner
    \/ pc = "idle" /\ \E s \in Scripts : RunTestsCall(s) /\ OutsideRunner
    \/ \E checked \in BOOLEAN, interp \in InvokeOutcomes : RunTestsLoad(checked, interp) /\ OutsideRunner
    \/ \E out \in InvokeOutcomes : RunTestsSetup(out) /\ OutsideRunner
    \/ RunTestsCollect /\ OutsideRunner
    \/ \E out \in InvokeOutcomes : RunTestsBeforeEach(out) /\ OutsideRunner
    \/ \E out \in InvokeOutcomes : RunTestsCase(out) /\ OutsideRunner
    \/ \E out \in InvokeOutcomes : RunTestsAfterEach(out) /\ OutsideRunner
    \/ RunTestsAppend /\ OutsideRunner
    \/ \E out \in InvokeOutcomes : RunTestsTearDown(out) /\ OutsideRunner
    \/ pc = "idle" /\ \E s \in Scripts, n \in RunTestNames : RunTestCall(s, n) /\ OutsideRunner
    \/ \E checked \in BOOLEAN, interp \in InvokeOutcomes : RunTestLoad(checked, interp) /\ OutsideRunner
    \/ \E out \in InvokeOutcomes : RunTestSetup(out) /\ OutsideRunner
    \/ \E out \in InvokeOutcomes : RunTestBeforeEach(out) /\ OutsideRunner
    \/ \E out \in InvokeOutcomes : RunTestCase(out) /\ OutsideRunner
    \/ \E out \in InvokeOutcomes : RunTestAfterEach(out) /\ OutsideRunner
    \/ \E out \in InvokeOutcomes : RunTestTearDown(out) /\ OutsideRunner
    \/ Finish /\ OutsideRunner

Spec == Init /\ [][Next]_allVars

(***************************************************************************)
(* Sessions: several calls on one TestRunner.  The scripts of a session    *)
(* declare at least two well-formed test functions and no hooks.           *)
(***************************************************************************)
SessionScripts ==
    { s \in Scripts :
        /\ s.hooks = {}
        /\ Len(s.funcs) >= 2
        /\ \A i \in 1..Len(s.funcs) :
              /\ HasPrefix(s.funcs[i].name, testFunctionPrefix)
              /\ ~s.funcs[i].hasParams
              /\ ~s.funcs[i].hasReturn }

\* a call is in progress
InCall == pc \notin {"idle", "done", "panicked"}

\* the logger hands a message to the hook while a call executes
EmitLog(level, msg) ==
    /\ InCall
    /\ Len(logs) < MaxLogs
    /\ logs' = logCollectionHookRun(logs, level, msg)
    /\ UNCHANGED <<vars, orderLog, backendVars, accountVars, importVars, toolVars>>

\* TestRunner.Logs()
Logs == logs

\* history: remember the order a seeded run gave its cases
RecordOrder ==
    orderLog' =
        IF randomSeed > 0
        THEN (IF orderLog = <<>> THEN <<>> ELSE <<orderLog[Len(orderLog)]>>)
             \o <<[script |-> script, seed |-> randomSeed, order |-> testCases']>>
        ELSE orderLog

KeepLogs == UNCHANGED <<logs, backendVars, accountVars, importVars, toolVars>>
KeepSession == UNCHANGED <<sessionVars, backendVars, accountVars, importVars, toolVars>>

NextOrder ==
    \/ \E seed \in Seeds : WithRandomSeed(seed) /\ KeepSession
    \/ pc = "idle" /\ \E s \in SessionScripts : RunTestsCall(s) /\ KeepSession
    \/ \E checked \in BOOLEAN, interp \in InvokeOutcomes : RunTestsLoad(checked, interp) /\ KeepSession
    \/ \E out \in InvokeOutcomes : RunTestsSetup(out) /\ KeepSession
    \/ RunTestsCollect /\ RecordOrder /\ KeepLogs
    \/ \E out \in InvokeOutcomes : RunTestsBeforeEach(out) /\ KeepSession
    \/ \E out \in InvokeOutcomes : RunTestsCase(out) /\ KeepSession
    \/ \E out \in InvokeOutcomes : RunTestsAfterEach(out) /\ KeepSession
    \/ RunTestsAppend /\ KeepSession
    \/ \E out \in InvokeOutcomes : RunTestsTearDown(out) /\ KeepSession
    \/ Finish /\ KeepSession

SpecOrder == Init /\ [][NextOrder]_allVars

NextLogs ==
    \/ \E seed \in Seeds : WithRandomSeed(seed) /\ KeepSession
    \/ pc = "idle" /\ \E s \in SessionScripts : RunTestsCall(s) /\ KeepSession
    \/ \E checked \in BOOLEAN, interp \in InvokeOutcomes : RunTestsLoad(checked, interp) /\ KeepSession
    \/ \E out \in InvokeOutcomes : RunTestsSetup(out) /\ KeepSession
    \/ RunTestsCollect /\ KeepSession
    \/ \E out \in InvokeOutcomes : RunTestsBeforeEach(out) /\ KeepSession
    \/ \E out \in InvokeOutcomes : RunTestsCase(out) /\ KeepSession
    \/ \E out \in InvokeOutcomes : RunTestsAfterEach(out) /\ KeepSession
    \/ RunTestsAppend /\ KeepSession
    \/ \E out \in InvokeOutcomes : RunTestsTearDown(out) /\ KeepSession
    \/ pc = "idle" /\ \E s \in SessionScripts, n \in RunTestNames : RunTestCall(s, n) /\ KeepSession
    \/ \E checked \in BOOLEAN, interp \in InvokeOutcomes : RunTestLoad(checked, interp) /\ KeepSession
    \/ \E out \in InvokeOutcomes : RunTestSetup(out) /\ KeepSession
    \/ \E out \in InvokeOutcomes : RunTestBeforeEach(out) /\ KeepSession
    \/ \E out \in InvokeOutcomes : RunTestCase(out) /\ KeepSession
    \/ \E out \in InvokeOutcomes : RunTestAfterEach(out) /\ KeepSession
    \/ \E out \in InvokeOutcomes : RunTestTearDown(out) /\ KeepSession
    \/ Finish /\ KeepSession
    \/ \E level \in Levels, msg \in LogMessages : EmitLog(level, msg)

SpecLogs == Init /\ [][NextLogs]_allVars

(***************************************************************************)
(* RunTest and RunTests side by side: a script with one test function is   *)
(* run by RunTest and then, on a runner set up alike, by RunTests.         *)
(***************************************************************************)
\* the test-prefixed functions of a script
TestFunctions(s) ==
    { i \in 1..Len(s.funcs) : HasPrefix(s.funcs[i].name, testFunctionPrefix) }

PairScripts == { s \in Scripts : Cardinality(TestFunctions(s)) = 1 }

\* the name of the one test function of a script
TheTest(s) == s.funcs[CHOOSE i \in TestFunctions(s) : TRUE].name

KeepPair ==
    /\ UNCHANGED <<sessionVars, backendVars, accountVars, importVars>>
    /\ UNCHANGED <<lintRun, contractInvocations, lastValue, clientVars>>

\* the call has ended: how it was made, whether the script loaded, the
\* functions it invoked with what each did, what it returned and the panic that
\* left it are kept, and a runner is ready for the next call
Conclude ==
    /\ pc \in {"done", "panicked"}
    /\ Len(runLog) < 2
    /\ runLog' = Append(runLog, [mode |-> mode, script |-> script, loaded |-> loaded,
                                 trace |-> trace, ret |-> ret, panic |-> panicValue])
    /\ pc' = "idle"
    /\ mode' = "none"
    /\ script' = NoScript
    /\ funcName' = <<>>
    /\ testCases' = <<>>
    /\ idx' = 0
    /\ results' = <<>>
    /\ testErr' = NilErr
    /\ ret' = NoReturn
    /\ panicValue' = NilErr
    /\ loaded' = FALSE
    /\ trace' = <<>>
    /\ UNCHANGED randomSeed
    /\ KeepPair

Stepping == UNCHANGED runLog /\ KeepPair

NextPair ==
    \/ runLog = <<>> /\ \E seed \in { n \in Seeds : n <= 0 } : WithRandomSeed(seed) /\ Stepping
    \/ pc = "idle" /\ runLog = <<>> /\ \E s \in PairScripts :
          RunTestCall(s, TheTest(s)) /\ Stepping
    \/ pc = "idle" /\ Len(runLog) = 1 /\ RunTestsCall(runLog[1].script) /\ Stepping
    \/ \E checked \in BOOLEAN, interp \in InvokeOutcomes : RunTestsLoad(checked, interp) /\ Stepping
    \/ \E out \in InvokeOutcomes : RunTestsSetup(out) /\ Stepping
    \/ RunTestsCollect /\ Stepping
    \/ \E out \in InvokeOutcomes : RunTestsBeforeEach(out) /\ Stepping
    \/ \E out \in InvokeOutcomes : RunTestsCase(out) /\ Stepping
    \/ \E out \in InvokeOutcomes : RunTestsAfterEach(out) /\ Stepping
    \/ RunTestsAppend /\ Stepping
    \/ \E out \in InvokeOutcomes : RunTestsTearDown(out) /\ Stepping
    \/ \E checked \in BOOLEAN, interp \in InvokeOutcomes : RunTestLoad(checked, interp) /\ Stepping
    \/ \E out \in InvokeOutcomes : RunTestSetup(out) /\ Stepping
    \/ \E out \in InvokeOutcomes : RunTestBeforeEach(out) /\ Stepping
    \/ \E out \in InvokeOutcomes : RunTestCase(out) /\ Stepping
    \/ \E out \in InvokeOutcomes : RunTestAfterEach(out) /\ Stepping
    \/ \E out \in InvokeOutcomes : RunTestTearDown(out) /\ Stepping
    \/ Conclude

SpecPair == Init /\ [][NextPair]_allVars

(***************************************************************************)
(* The calls of the emulator backend.                                      *)
(***************************************************************************)
\* the backend is in the state a call left it in, and the history moves on
Called(op, e, err, panic, result, reply, tx) ==
    /\ blockOffset' = e.blockOffset
    /\ blockchain' = e.blockchain
    /\ crashed' = (panic # NilErr)
    /\ lastCall' = Call(op, err, panic, result, reply, tx,
                        blockOffset, ServiceKeySequenceNumber(blockchain))
    /\ prevCall' = Earlier(lastCall)
    /\ UNCHANGED <<vars, sessionVars, importVars, toolVars>>

NoResult == TransactionResult(TRUE, NilErr)

\* the rest of the backend after a call that leaves the accounts alone
Detailed(detail) ==
    /\ lastDetail' = detail
    /\ UNCHANGED <<accountKeys, created, accounts>>

\* lines 401-403
UseConfiguration(c) ==
    /\ ~crashed
    /\ configuration' = c
    /\ Called("UseConfiguration", Backend(blockOffset, blockchain), NilErr, NilErr,
              NoResult, "none", NoTransaction)
    /\ Detailed(NoDetail)

\* lines 141-172
CreateAccount(publicKey, ok) ==
    /\ ~crashed
    /\ created < MaxAccounts
    /\ LET r == createAccount(accountKeys, created, publicKey, ok)
       IN  /\ accountKeys' = r.accountKeys
           /\ created' = IF ok THEN created + 1 ELSE created
           /\ accounts' = IF ok THEN accounts \cup {r.account} ELSE accounts
           /\ lastDetail' = Detail(<<>>, FALSE, <<>>, <<>>, <<>>, 0, r.account)
           /\ Called("CreateAccount", Backend(blockOffset, blockchain), r.err, NilErr,
                     NoResult, IF ok THEN "ok" ELSE "ledgerError", NoTransaction)
    /\ UNCHANGED configuration

\* lines 89-139
RunScript(code, fail) ==
    /\ ~crashed
    /\ LET r == runScript(configuration, code, fail)
       IN  /\ Called("RunScript", Backend(blockOffset, blockchain), r.result.Error,
                     r.panic, NoResult, "none", NoTransaction)
           /\ Detailed(Detail(code, r.submitted, r.code, <<>>, <<>>, 0, NoAccount))
    /\ UNCHANGED configuration

\* lines 376-382
ReadFile(resolution) ==
    /\ ~crashed
    /\ Called("ReadFile", Backend(blockOffset, blockchain), readFile(resolution),
              NilErr, NoResult, "none", NoTransaction)
    /\ Detailed(NoDetail)
    /\ UNCHANGED configuration

\* lines 174-212
AddTransaction(code, signers, stage, failAt) ==
    /\ ~crashed
    /\ Len(blockchain.pending) < MaxPending
    /\ LET rewritten == replaceImports(configuration, code)
           signing == signTransaction(accountKeys, signers, failAt)
           fail == FailureOf(stage, signing)
           r == addTransaction(Backend(blockOffset, blockchain),
                               ~configuration.isNil, Parses(code), fail)
           submitted == r.panic = NilErr /\ fail \in {"none", "submit"}
       IN  /\ Called("AddTransaction", r.e, r.err, r.panic, NoResult, "none", r.tx)
           /\ Detailed(Detail(code, submitted,
                              IF submitted THEN rewritten.code ELSE <<>>,
                              signers,
                              IF rewritten.panic \/ stage = "arguments"
                              THEN <<>> ELSE signing.signatures,
                              failAt, NoAccount))
    /\ UNCHANGED configuration

\* lines 266-289
ExecuteNextTransaction(out) ==
    /\ ~crashed
    /\ ServiceKeySequenceNumber(blockchain) < MaxSequence
    /\ LET r == executeNextTransaction(Backend(blockOffset, blockchain), out)
       IN  Called("ExecuteNextTransaction", r.e, NilErr, NilErr, r.result,
                  LedgerReply(blockchain, out), NoTransaction)
    /\ Detailed(NoDetail)
    /\ UNCHANGED configuration

\* lines 291-297
CommitBlock(ok) ==
    /\ ~crashed
    /\ LET r == commitBlock(Backend(blockOffset, blockchain), ok)
       IN  Called("CommitBlock", r.e, r.err, NilErr, NoResult,
                  IF ok THEN "ok" ELSE "ledgerError", NoTransaction)
    /\ Detailed(NoDetail)
    /\ UNCHANGED configuration

\* lines 299-374: the deployment carries the rewritten code, hex-encoded, and
\* is signed by the target account alone
DeployContract(code, account, stage, failAt, out, ok) ==
    /\ ~crashed
    /\ Len(blockchain.pending) < MaxPending
    /\ ServiceKeySequenceNumber(blockchain) < MaxSequence
    /\ LET rewritten == replaceImports(configuration, code)
           signing == signTransaction(accountKeys, <<account>>, failAt)
           fail == FailureOf(stage, signing)
           r == deployContract(Backend(blockOffset, blockchain),
                               ~configuration.isNil, Parses(code), fail, out, ok)
           submitted == ~rewritten.panic /\ fail \in {"none", "submit"}
       IN  /\ Called("DeployContract", r.e, r.err, r.panic, NoResult, "none", r.tx)
           /\ Detailed(Detail(code, submitted,
                              IF submitted THEN rewritten.code ELSE <<>>,
                              <<account>>,
                              IF rewritten.panic \/ stage \in {"export", "arguments"}
                              THEN <<>> ELSE signing.signatures,
                              failAt, NoAccount))
    /\ UNCHANGED configuration

\* the stages of a call that fail by themselves
AddTransactionStages == AddTransactionFailures \ {"sign"}
DeployContractStages == DeployContractFailures \ {"sign"}

\* the code and the configurations the calls are checked with where import
\* rewriting is not the subject: text that parses and text that does not,
\* no configuration and an empty one
PlainCode == <<Unit("text", 1)>>
BackendCodes == { PlainCode, <<Unit("junk", 0)>> }
BackendConfigurations == { NilConfiguration, Configuration(<<>>) }

\* an input that cannot change the outcome is fixed: the code matters under
\* a configuration only, a signing failure once the arguments are encoded,
\* and the ledger's execution and commit once the deployment is submitted;
\* one account is enough for the deployments
NextBackend ==
    \/ \E c \in BackendConfigurations : UseConfiguration(c)
    \/ created = 0 /\ \E ok \in BOOLEAN : CreateAccount("k1", ok)
    \/ \E code \in { c \in BackendCodes : c = PlainCode \/ ~configuration.isNil },
          fail \in RunScriptFailures :
          RunScript(code, fail)
    \/ \E resolution \in FileResolutions : ReadFile(resolution)
    \/ \E code \in { c \in BackendCodes : c = PlainCode \/ ~configuration.isNil },
          stage \in AddTransactionStages :
          \E failAt \in { k \in 0..1 : stage = "none" \/ k = 0 } :
          AddTransaction(code, <<>>, stage, failAt)
    \/ \E out \in LedgerReplies : ExecuteNextTransaction(out)
    \/ \E ok \in BOOLEAN : CommitBlock(ok)
    \/ \E code \in { c \in BackendCodes : c = PlainCode \/ ~configuration.isNil },
          account \in accounts \cup {UnknownAccount},
          stage \in DeployContractStages :
          \E failAt \in { k \in 0..1 : stage = "none" \/ k = 0 } :
          \E out \in { o \in LedgerReplies :
                         (stage = "none" /\ failAt = 0) \/ o = "ok" } :
          \E ok \in { b \in BOOLEAN :
                        (stage = "none" /\ failAt = 0 /\ out = "ok") \/ b } :
          DeployContract(code, account, stage, failAt, out, ok)

SpecBackend == Init /\ [][NextBackend]_allVars

(***************************************************************************)
(* Accounts and signers: every operation of the backend, with the keys the *)
(* generator may hand out and the signers a transaction may be given.  The *)
(* pending block holds one transaction at a time and the ledger does what  *)
(* it is asked, except for the creation of accounts.                       *)
(***************************************************************************)
\* the signer lists of a transaction: up to two accounts, created by this
\* backend or not
SignerLists ==
    LET candidates == accounts \cup {UnknownAccount}
    IN  {<<>>} \cup { <<a>> : a \in candidates }
               \cup { <<a, b>> : a \in candidates, b \in accounts }

NextAccounts ==
    \/ UseConfiguration(Configuration(<<>>))
    \/ \E publicKey \in PublicKeys, ok \in BOOLEAN : CreateAccount(publicKey, ok)
    \/ RunScript(PlainCode, "none")
    \/ ReadFile("ok")
    \/ blockchain.pending = <<>> /\ \E signers \in SignerLists :
          \E failAt \in 0..(Len(signers) + 2) :
          AddTransaction(PlainCode, signers, "none", failAt)
    \/ ExecuteNextTransaction("ok")
    \/ CommitBlock(TRUE)
    \/ blockchain.pending = <<>> /\ \E account \in accounts \cup {UnknownAccount} :
          \E failAt \in 0..3 :
          DeployContract(PlainCode, account, "none", failAt, "ok", TRUE)

SpecAccounts == Init /\ [][NextAccounts]_allVars

(***************************************************************************)
(* Import rewriting: one script, transaction or deployment on a freshly    *)
(* configured backend, for every code and every configuration.  The ledger *)
(* may refuse code the parser rejects.                                     *)
(***************************************************************************)
\* no script, transaction or deployment has been handed in yet
Fresh == lastCall.op \in {"none", "UseConfiguration", "CreateAccount"}

NextRewrite ==
    \/ lastCall.op = "none" /\ \E c \in Configurations : UseConfiguration(c)
    \/ Fresh /\ created = 0 /\ CreateAccount("k1", TRUE)
    \/ Fresh /\ \E code \in Codes :
          \E fail \in { f \in {"none", "ledger"} : f = "none" <=> Parses(code) } :
          RunScript(code, fail)
    \/ Fresh /\ \E code \in Codes :
          \E stage \in { f \in {"none", "submit"} : Parses(code) => f = "none" } :
          AddTransaction(code, <<>>, stage, 0)
    \/ Fresh /\ \E code \in Codes, account \in accounts :
          \E stage \in { f \in {"none", "submit"} : Parses(code) => f = "none" } :
          DeployContract(code, account, stage, 0, "ok", TRUE)

SpecRewrite == Init /\ [][NextRewrite]_allVars

(***************************************************************************)
(* Imports: the handlers the checker and the interpreter call for an       *)
(* import of the test script.                                              *)
(***************************************************************************)
OutsideImports == UNCHANGED <<vars, sessionVars, backendVars, accountVars, toolVars>>

\* lines 187-190
WithImportResolver(resolver) ==
    /\ importResolver' = resolver
    /\ UNCHANGED lastImport
    /\ OutsideImports

CheckerImport(location, resolved, ledger, nested, checked) ==
    /\ lastImport' = Import("checker", location, resolved, ledger, nested,
                            checkerImportHandler(importResolver, location, resolved,
                                                 ledger, nested, checked))
    /\ UNCHANGED importResolver
    /\ OutsideImports

InterpreterImport(location, resolved, ledger, nested, checked, sub) ==
    /\ lastImport' = Import("interpreter", location, resolved, ledger, nested,
                            interpreterImportHandler(importResolver, location, resolved,
                                                     ledger, nested, checked, sub))
    /\ UNCHANGED importResolver
    /\ OutsideImports

NextResolve ==
    \/ \E resolver \in Resolvers : WithImportResolver(resolver)
    \/ \E location \in Locations, resolved \in Resolutions, ledger \in LedgerAccounts,
          nested \in NestedImports, checked \in BOOLEAN :
          CheckerImport(location, resolved, ledger, nested, checked)
    \/ \E location \in Locations, resolved \in Resolutions, ledger \in LedgerAccounts,
          nested \in NestedImports, checked \in BOOLEAN, sub \in BOOLEAN :
          InterpreterImport(location, resolved, ledger, nested, checked, sub)

SpecResolve == Init /\ [][NextResolve]_allVars

(***************************************************************************)
(* The lint tool.                                                          *)
(***************************************************************************)
\* lines 56-133 of main
Main(loadOnly, analyzersFlag, order, target) ==
    /\ lintRun' = Run(loadOnly, analyzersFlag, target,
                      enabledAnalyzers(loadOnly, analyzersFlag, order))
    /\ UNCHANGED <<vars, sessionVars, backendVars, accountVars, importVars>>
    /\ UNCHANGED <<contractInvocations, lastValue, runLog, clientVars>>

NextLint ==
    \E loadOnly \in BOOLEAN, analyzersFlag \in AnalyzerFlags, order \in RangeOrders,
       target \in Targets :
       Main(loadOnly, analyzersFlag, order, target)

SpecLint == Init /\ [][NextLint]_allVars

(***************************************************************************)
(* Contract values.                                                        *)
(***************************************************************************)
OutsideValues ==
    UNCHANGED <<vars, sessionVars, backendVars, accountVars, importVars, lintRun, runLog,
                clientVars>>

\* a deployment records its constructor arguments
RecordInvocation(name, arguments) ==
    /\ contractInvocations' = recordInvocation(contractInvocations, name, arguments)
    /\ lastValue' = NoValue
    /\ OutsideValues

\* the interpreter asks for the value of a contract
ContractValueHandler(location, identifier, invoked) ==
    /\ lastValue' = Value(location, identifier,
                          interpreterContractValueHandler(contractInvocations,
                                                          location, identifier, invoked))
    /\ UNCHANGED contractInvocations
    /\ OutsideValues

NextValues ==
    \/ \E name \in ContractNames, arguments \in ConstructorArguments :
          RecordInvocation(name, arguments)
    \/ \E location \in TypeLocations, identifier \in ContractNames, invoked \in BOOLEAN :
          ContractValueHandler(location, identifier, invoked)

SpecValues == Init /\ [][NextValues]_allVars

(***************************************************************************)
(* The flow client of the language server:                                 *)
(* src/languageserver/integration/flow.go.                                 *)
(***************************************************************************)
\* var names (lines 66-74)
AllNames ==
    <<"Alice", "Bob", "Charlie", "Dave", "Eve", "Faythe", "Grace", "Heidi",
      "Ivan", "Judy", "Michael", "Niaj", "Olivia", "Oscar", "Peggy", "Rupert",
      "Sybil", "Ted", "Victor", "Walter">>

\* how many of the predefined names are kept
MaxNames == 3

\* the first MaxNames of them
names == SubSeq(AllNames, 1, MaxNames)

\* the names a caller may ask for: the predefined ones and one that is not
AskedNames == { names[i] : i \in 1..Len(names) } \cup {"Mallory"}

\* what the steps of CreateAccount before the limit check can do: succeed, or
\* fail at the service account, at its key, or at the creation on the network
CreateOutcomes == {"ok", "service", "key", "create"}

\* what Initialize can do before it creates accounts
LoadOutcomes == {"ok", "load", "service"}

\* clientAccount{Account: account, Name: name}
clientAccount(name) == [Name |-> name, Active |-> FALSE]

\* what a method of the client leaves: the accounts, the active account, the
\* error it returned and the panic that left it
Client(accs, active, err, panic) ==
    [accounts |-> accs, active |-> active, err |-> err, panic |-> panic]

\* GetClientAccount (lines 131-138): the first account of that name, 0 for nil
GetClientAccount(accs, name) ==
    LET found == { i \in 1..Len(accs) : accs[i].Name = name }
    IN  IF found = {} THEN 0 ELSE CHOOSE i \in found : \A j \in found : i <= j

\* CreateAccount (lines 280-314); names[nextIndex] with nextIndex = len(names)
\* is an index out of range, a run-time panic
flowkitCreateAccount(accs, active, outcome) ==
    IF outcome # "ok" THEN Client(accs, active, Error(outcome, <<>>), NilErr)
    ELSE LET nextIndex == Len(accs)
         IN  IF nextIndex > Len(names)
             THEN Client(accs, active, Error("account limit reached", <<>>), NilErr)
             ELSE IF nextIndex >= Len(names)
             THEN Client(accs, active, NilErr, Error("index out of range", <<>>))
             ELSE Client(Append(accs, clientAccount(names[nextIndex + 1])), active,
                         NilErr, NilErr)

\* the loop of Initialize (lines 118-123): CreateAccount is called until
\* numberOfAccounts accounts are made or one call fails; the failAt-th call
\* fails as outcome says
RECURSIVE createAccounts(_, _, _, _, _, _)
createAccounts(accs, active, i, numberOfAccounts, failAt, outcome) ==
    IF i > numberOfAccounts THEN Client(accs, active, NilErr, NilErr)
    ELSE LET r == flowkitCreateAccount(accs, active, IF i = failAt THEN outcome ELSE "ok")
         IN  IF r.err # NilErr \/ r.panic # NilErr THEN r
             ELSE createAccounts(r.accounts, active, i + 1, numberOfAccounts, failAt, outcome)

\* Initialize (lines 83-129)
initialize(accs, active, load, numberOfAccounts, failAt, outcome) ==
    IF load # "ok" THEN Client(accs, active, Error(load, <<>>), NilErr)
    ELSE IF numberOfAccounts > Len(names) \/ numberOfAccounts <= 0
    THEN Client(accs, active, Error("only possible to create between 1 and n accounts", <<>>),
                NilErr)
    ELSE LET r == createAccounts(<<>>, active, 1, numberOfAccounts, failAt, outcome)
         IN  IF r.err # NilErr \/ r.panic # NilErr THEN r
             ELSE Client([r.accounts EXCEPT ![1].Active = TRUE], 1, NilErr, NilErr)

\* SetActiveClientAccount (lines 145-159): the active account is deactivated
\* before the name is looked up
SetActiveClientAccount(accs, active, name) ==
    LET deactivated == IF active # 0 THEN [accs EXCEPT ![active].Active = FALSE] ELSE accs
        account == GetClientAccount(deactivated, name)
    IN  IF account = 0
        THEN Client(deactivated, active, Error("account not found", <<name>>), NilErr)
        ELSE Client([deactivated EXCEPT ![account].Active = TRUE], account, NilErr, NilErr)

OutsideClient ==
    UNCHANGED <<vars, sessionVars, backendVars, accountVars, importVars, lintRun,
                contractInvocations, lastValue, runLog>>

\* a call of the client took the client from one state to the next
ClientStep(op, arg, r) ==
    /\ clientAccounts' = r.accounts
    /\ activeAccount' = r.active
    /\ clientCall' = ClientCall(op, arg, r.err, r.panic)
    /\ OutsideClient

\* Initialize is called on a client that has not been initialized
ClientInitialize(load, numberOfAccounts, failAt, outcome) ==
    /\ ~initialized
    /\ LET r == initialize(clientAccounts, activeAccount, load, numberOfAccounts, failAt, outcome)
       IN  /\ ClientStep("Initialize", <<numberOfAccounts>>, r)
           /\ initialized' = (r.err = NilErr /\ r.panic = NilErr)

ClientCreateAccount(outcome) ==
    /\ initialized
    /\ ClientStep("CreateAccount", <<outcome>>,
                  flowkitCreateAccount(clientAccounts, activeAccount, outcome))
    /\ UNCHANGED initialized

ClientSetActive(name) ==
    /\ initialized
    /\ ClientStep("SetActiveClientAccount", <<name>>,
                  SetActiveClientAccount(clientAccounts, activeAccount, name))
    /\ UNCHANGED initialized

NextClient ==
    \/ \E load \in LoadOutcomes, numberOfAccounts \in 0..(MaxNames + 1), failAt \in 1..MaxNames, outcome \in CreateOutcomes :
          ClientInitialize(load, numberOfAccounts, failAt, outcome)
    \/ \E outcome \in CreateOutcomes : ClientCreateAccount(outcome)
    \/ \E name \in AskedNames : ClientSetActive(name)

SpecClient == Init /\ [][NextClient]_allVars

(***************************************************************************)
(* Vocabulary of the properties.                                           *)
(***************************************************************************)
\* the current call is over: it returned or a panic left it
Ended == pc \in {"done", "panicked"}

\* positions of the history holding an invocation of the given kind
Positions(kind) == { i \in 1..Len(trace) : trace[i].kind = kind }

\* every invocation of the given kind returned nil
AllOk(kind) == \A i \in Positions(kind) : trace[i].out = "ok"

\* the loop hooks of the run all returned nil
LoopHooksOk == AllOk("beforeEach") /\ AllOk("afterEach")

IsTestFunction(d) == HasPrefix(d.name, testFunctionPrefix)

\* the names of the test-prefixed functions of the script, in declaration order
DeclaredTests == LET tests == SelectSeq(script.funcs, IsTestFunction)
                 IN  [i \in 1..Len(tests) |-> tests[i].name]

\* the names of the cases invoked so far, in execution order
ExecutedCases == LET isCase(e) == e.kind = "case"
                     cases == SelectSeq(trace, isCase)
                 IN  [i \in 1..Len(cases) |-> cases[i].fn]

\* the script declares a test-prefixed function with parameters or a return type
MalformedTest == \E i \in 1..Len(script.funcs) :
                    /\ IsTestFunction(script.funcs[i])
                    /\ script.funcs[i].hasParams \/ script.funcs[i].hasReturn

\* the place of each kind of invocation in the lifecycle of one case
KindRank(kind) ==
    CASE kind = "setup" -> 1
      [] kind = "beforeEach" -> 2
      [] kind = "case" -> 3
      [] kind = "afterEach" -> 4
      [] kind = "tearDown" -> 5

\* the error a failed invocation of fn returns
InvokeError(n) == Error("error", n)

(***************************************************************************)
(* Properties of RunTest and RunTests.                                     *)
(***************************************************************************)

\* C1: in every RunTests run that returned and in which parse/check and setup
\* succeeded, a declared tearDown has been invoked exactly once, whatever
\* cases, beforeEach or afterEach calls failed.
C1_TearDownExactlyOnce ==
    (mode = "RunTests" /\ pc = "done" /\ loaded /\ AllOk("setup") /\ hasTearDown(script))
        => Cardinality(Positions("tearDown")) = 1

\* C2: in a RunTests run whose hooks all succeed, a case that faults or returns
\* an error gets a Result with a non-nil error, for that case only, and every
\* case of the execution order is invoked and gets its own Result.
C2_CaseFailureContained ==
    (mode = "RunTests" /\ Ended /\ loaded
        /\ AllOk("setup") /\ LoopHooksOk /\ AllOk("tearDown"))
        => /\ pc = "done"
           /\ ExecutedCases = testCases
           /\ Len(ret.items) = Len(testCases)
           /\ \A i \in 1..Len(ret.items) :
                 /\ ret.items[i].TestName = testCases[i]
                 /\ (ret.items[i].Error # NilErr) <=> (trace[CHOOSE k \in Positions("case") :
                        Cardinality({ m \in Positions("case") : m <= k }) = i].out # "ok")

\* C3: no fault raised during load, a hook or a case leaves a RunTest or
\* RunTests call: the call always returns.
C3_NoFaultEscapes == pc # "panicked"

\* C4: when beforeEach or afterEach fails during RunTests, the call returns the
\* hook's error together with the Results of the cases completed before.
C4_PartialResultsOnHookFailure ==
    (mode = "RunTests" /\ pc = "done" /\ ~LoopHooksOk)
        => /\ ret.err \in { InvokeError(beforeEachFunctionName),
                            InvokeError(afterEachFunctionName) }
           /\ ret.items = results

\* C5: RunTest invokes setup, beforeEach, the named case, afterEach and tearDown
\* in this order; afterEach is invoked also when the case failed or faulted;
\* the returned Result carries the outcome of the case.
C5_RunTestLifecycle ==
    (mode = "RunTest")
        => /\ \A i, j \in 1..Len(trace) :
                 i < j => KindRank(trace[i].kind) < KindRank(trace[j].kind)
           /\ (Ended /\ Positions("case") # {} /\ hasAfterEach(script))
                 => Positions("afterEach") # {}
           /\ (pc = "done" /\ ~ret.isNil)
                 => /\ Positions("case") # {}
                    /\ ret.items = <<Result(funcName,
                          IF trace[CHOOSE k \in Positions("case") : TRUE].out = "ok"
                          THEN NilErr ELSE InvokeError(funcName))>>

\* C6: in RunTests every invoked case is immediately preceded by a successful
\* beforeEach and immediately followed by an afterEach (when declared), and no
\* case is invoked after a failed beforeEach.
C6_CaseBracketedByHooks ==
    (mode = "RunTests")
        => \A i \in Positions("case") :
              /\ hasBeforeEach(script)
                    => /\ i > 1
                       /\ trace[i - 1].kind = "beforeEach"
                       /\ trace[i - 1].out = "ok"
              /\ hasAfterEach(script)
                    => \/ i = Len(trace) /\ pc = "RunTests:afterEach"
                       \/ i < Len(trace) /\ trace[i + 1].kind = "afterEach"
              /\ \A k \in Positions("beforeEach") : k < i => trace[k].out = "ok"

\* C7: if parse/check fails or setup fails, the call invokes no test case,
\* returns the failure as its error and returns no Result.
C7_LoadOrSetupFailureAborts ==
    (Ended /\ ((~loaded /\ pc = "done") \/ (loaded /\ ~AllOk("setup"))))
        => /\ Positions("case") = {}
           /\ pc = "done"
           /\ ret.err # NilErr
           /\ ret.isNil

\* C8: a script declaring a test-prefixed function with a parameter or a
\* return type is rejected at load time: the call returns an error and no
\* hook and no case is invoked.
C8_MalformedTestRejected ==
    (mode # "none" /\ MalformedTest)
        => /\ trace = <<>>
           /\ pc \in {"RunTests:load", "RunTest:load", "done"}
           /\ pc = "done" => (ret.err # NilErr /\ ret.isNil /\ ~loaded)

C8_Witness ==
    /\ pc = "done"
    /\ MalformedTest
    /\ ret.err = Error("test functions should have no return values", <<>>)

\* C9: when all cases and hooks of a suite pass, RunTests returns exactly one
\* Result per test-prefixed function of the script, each name exactly once,
\* for any seed, and every Result has a nil error.
C9_OneResultPerPassingCase ==
    (mode = "RunTests" /\ pc = "done" /\ loaded
        /\ \A i \in 1..Len(trace) : trace[i].out = "ok")
        => /\ ~ret.isNil
           /\ Len(ret.items) = Len(DeclaredTests)
           /\ \A k \in 1..Len(DeclaredTests) :
                 Cardinality({ i \in 1..Len(ret.items) :
                                  ret.items[i].TestName = DeclaredTests[k] }) = 1
           /\ \A i \in 1..Len(ret.items) : ret.items[i].Error = NilErr

C9_Witness ==
    /\ mode = "RunTests"
    /\ pc = "done"
    /\ randomSeed > 0
    /\ Len(ret.items) = 3
    /\ \A i \in 1..Len(trace) : trace[i].out = "ok"
    /\ testCases # DeclaredTests
    /\ script.hooks = HookNames

\* C10: the Results returned by RunTests are in execution order, and with a
\* seed <= 0 the execution order is the declaration order of the
\* test-prefixed functions.
C10_ResultsInExecutionOrder ==
    (mode = "RunTests" /\ pc = "done" /\ ~ret.isNil)
        => /\ [i \in 1..Len(ret.items) |-> ret.items[i].TestName] = ExecutedCases
           /\ randomSeed <= 0 => ExecutedCases = DeclaredTests

C10_Witness ==
    /\ mode = "RunTests"
    /\ pc = "done"
    /\ ~ret.isNil
    /\ randomSeed <= 0
    /\ Len(ret.items) = 2
    /\ \E i \in 1..Len(script.funcs) : ~IsTestFunction(script.funcs[i])

C12_TearDownFailureReturned ==
    (mode = "RunTests" /\ Ended /\ ~AllOk("tearDown"))
        => /\ pc = "done"
           /\ ret.err = InvokeError(tearDownFunctionName)
           /\ ~ret.isNil
           /\ [i \in 1..Len(ret.items) |-> ret.items[i].TestName] = ExecutedCases

\* C13: the sequence returned by Logs() only grows: its value before any step
\* of any call is a prefix of its value after the step.
C13_LogsAppendOnly ==
    [][/\ Len(Logs') >= Len(Logs)
       /\ SubSeq(Logs', 1, Len(Logs)) = Logs]_allVars

C13_Witness ==
    /\ pc = "idle"
    /\ Len(Logs) = 2
    /\ Logs[1] # Logs[2]

(***************************************************************************)
(* Properties of the emulator backend.                                     *)
(***************************************************************************)
\* the latest call built a transaction
Built == lastCall.tx # NoTransaction

\* the latest call is `op` and returned no error
Succeeded(call, op) == call.op = op /\ call.err = NilErr /\ call.panic = NilErr

\* C14: every transaction built by AddTransaction or DeployContract carries the
\* sequence number of the service key plus the pending offset, both as they
\* were when the transaction was built.
C14_SequenceNumberIsBasePlusOffset ==
    (lastCall.op \in {"AddTransaction", "DeployContract"} /\ Built)
        => lastCall.tx.seq = lastCall.base + lastCall.offset

C14_Witness ==
    /\ lastCall.op = "DeployContract"
    /\ Built
    /\ lastCall.offset > 0
    /\ lastCall.base > 0

\* C15: no two transactions queued in the uncommitted block carry the same
\* sequence number.
C15_DistinctSequenceNumbers ==
    \A i, j \in 1..Len(blockchain.pending) :
        i # j => blockchain.pending[i].seq # blockchain.pending[j].seq

\* C16: the pending offset equals the number of transactions queued in the
\* uncommitted block.
C16_OffsetCountsQueued == blockOffset = Len(blockchain.pending)

C18_BasePlusOneAfterCommit ==
    (Succeeded(lastCall, "AddTransaction") /\ Succeeded(prevCall, "CommitBlock"))
        => lastCall.tx.seq = lastCall.base + 1

\* C18 amended: a successful AddTransaction right after a successful
\* CommitBlock builds a transaction with the base sequence number itself, and
\* leaves the pending offset at one.
C18_BaseAfterCommit ==
    (Succeeded(lastCall, "AddTransaction") /\ Succeeded(prevCall, "CommitBlock"))
        => /\ lastCall.tx.seq = lastCall.base
           /\ blockOffset = 1

C18_Witness ==
    /\ Succeeded(lastCall, "AddTransaction")
    /\ Succeeded(prevCall, "CommitBlock")
    /\ prevCall.offset > 0
    /\ lastCall.base > 0

\* C19: AddTransaction increments the pending offset by one when the
\* submission succeeds and leaves it unchanged when argument encoding, signing
\* or submission fails.
C19_OffsetCountsSubmissions ==
    (lastCall.op = "AddTransaction")
        => blockOffset = lastCall.offset + (IF Succeeded(lastCall, "AddTransaction") THEN 1 ELSE 0)

C19_Witness ==
    /\ lastCall.op = "AddTransaction"
    /\ lastCall.err = Error("submit", <<>>)
    /\ lastCall.offset > 0

\* C20: ExecuteNextTransaction returns nil exactly when the ledger reports
\* that nothing is pending; on any other failure of the ledger or of the
\* execution the result is non-nil and carries the error; on success it is
\* non-nil with no error.
C20_ExecuteNextTransactionResult ==
    (lastCall.op = "ExecuteNextTransaction")
        => /\ lastCall.result.isNil <=> (lastCall.reply = "exhausted")
           /\ lastCall.reply \in {"ledgerError", "executionError"}
                 => (~lastCall.result.isNil /\ lastCall.result.Error # NilErr)
           /\ lastCall.reply = "ok"
                 => (~lastCall.result.isNil /\ lastCall.result.Error = NilErr)

C20_Witness ==
    /\ lastCall.op = "ExecuteNextTransaction"
    /\ lastCall.reply = "ledgerError"
    /\ lastCall.result.Error # NilErr
    /\ blockchain.executed > 0

\* C21: after DeployContract returned, with success or with an error, no
\* deployment is queued in the pending block and the pending offset is zero.
C21_DeployLeavesNothingPending ==
    (lastCall.op = "DeployContract" /\ lastCall.panic = NilErr)
        => /\ blockOffset = 0
           /\ \A i \in 1..Len(blockchain.pending) :
                 blockchain.pending[i].kind # "deployment"

\* C22: no call of RunScript ends in a fault.
C22_RunScriptNeverFaults ==
    (lastCall.op = "RunScript") => lastCall.panic = NilErr

\* C23: CreateAccount, RunScript, ExecuteNextTransaction, ReadFile and
\* UseConfiguration leave the pending offset as it was.
C23_OffsetFrame ==
    (lastCall.op \in {"CreateAccount", "RunScript", "ExecuteNextTransaction",
                      "ReadFile", "UseConfiguration"})
        => blockOffset = lastCall.offset

C23_Witness ==
    /\ lastCall.op = "ExecuteNextTransaction"
    /\ lastCall.reply = "ok"
    /\ blockOffset > 0

\* C24: the signer mapping holds exactly the accounts CreateAccount returned,
\* each under its address with its public key mapped to its signer: only a
\* successful CreateAccount changes it, and no later call removes an entry.
C24_SignerMappingKeepsAccounts ==
    /\ DOMAIN accountKeys = { a.Address : a \in accounts }
    /\ \A a \in accounts :
          accountKeys[a.Address] = [k \in {a.PublicKey} |-> SignerOf(a.PublicKey)]

C24_Witness ==
    /\ Cardinality(accounts) = 2
    /\ \E a, b \in accounts : a.PublicKey # b.PublicKey
    /\ lastCall.op = "DeployContract"
    /\ lastCall.err = NilErr
    /\ lastCall.panic = NilErr

\* C25: the payload signatures are applied for the signers from the last to
\* the first, the envelope signature of the service account after all of
\* them; a signing step that fails ends the signing, and the transaction is
\* submitted only with all signatures applied.
C25_SigningOrder ==
    (lastCall.op \in {"AddTransaction", "DeployContract"})
        => LET sigs == lastDetail.signatures
               n == Len(lastDetail.signers)
           IN  /\ Len(sigs) <= n + 1
               /\ \A k \in 1..Len(sigs) :
                     IF k <= n
                     THEN /\ sigs[k].kind = "payload"
                          /\ sigs[k].address = lastDetail.signers[n + 1 - k].Address
                     ELSE /\ sigs[k].kind = "envelope"
                          /\ sigs[k].address = ServiceAddress
               /\ lastDetail.failAt > 0
                     => (Len(sigs) < lastDetail.failAt /\ ~lastDetail.submitted)
               /\ lastDetail.submitted => Len(sigs) = n + 1

C25_Witness ==
    /\ lastCall.op = "AddTransaction"
    /\ Len(lastDetail.signers) = 2
    /\ lastDetail.signers[1].Address # lastDetail.signers[2].Address
    /\ lastDetail.failAt = 2
    /\ Len(lastDetail.signatures) = 1
    /\ lastCall.err = Error("sign", <<>>)

\* the code with the location of every import of a configured string path
\* replaced by the address literal, unit by unit
Replaced(code, addresses) ==
    [i \in 1..Len(code) |->
        IF /\ i - 1 \in ImportHeads(code)
           /\ code[i].kind = "string"
           /\ code[i].val \in DOMAIN addresses
        THEN AddressLiteral(addresses[code[i].val])
        ELSE code[i]]

Submitting == lastCall.op \in {"RunScript", "AddTransaction", "DeployContract"}

\* C26: under a configuration, code that parses is submitted with the
\* location of every import of a configured string path replaced by the
\* address literal, and identical everywhere else.
C26_ConfiguredImportsReplaced ==
    (Submitting /\ ~configuration.isNil /\ Parses(lastDetail.code))
        => /\ lastCall.panic = NilErr
           /\ lastDetail.submitted
           /\ lastDetail.submittedCode = Replaced(lastDetail.code, configuration.Addresses)

C26_Witness ==
    /\ Submitting
    /\ ~configuration.isNil
    /\ Parses(lastDetail.code)
    /\ lastDetail.submitted
    /\ Cardinality(ImportHeads(lastDetail.code)) = 2
    /\ \A i \in ImportHeads(lastDetail.code) :
          /\ lastDetail.code[i + 1].kind = "string"
          /\ lastDetail.code[i + 1].val \in DOMAIN configuration.Addresses
    /\ \E i, j \in ImportHeads(lastDetail.code) :
          lastDetail.code[i + 1].val # lastDetail.code[j + 1].val

\* C27: without a configuration every code, parsing or not, is submitted as
\* given by RunScript, AddTransaction and DeployContract, and none of them
\* faults.
C27_NoConfigurationNoRewriting ==
    (Submitting /\ configuration.isNil)
        => /\ lastCall.panic = NilErr
           /\ lastDetail.submitted
           /\ lastDetail.submittedCode = lastDetail.code

C27_Witness ==
    /\ lastCall.op = "DeployContract"
    /\ configuration.isNil
    /\ ~Parses(lastDetail.code)
    /\ ImportHeads(lastDetail.code) # {}
    /\ lastDetail.submittedCode = lastDetail.code

\* C28: under a configuration, an import of an address and an import of a
\* string path the table does not hold are submitted unmodified, and no
\* error or fault arises from them.
C28_OtherImportsKept ==
    (Submitting /\ ~configuration.isNil /\ Parses(lastDetail.code))
        => /\ lastCall.panic = NilErr
           /\ lastCall.err = NilErr
           /\ Len(lastDetail.submittedCode) = Len(lastDetail.code)
           /\ \A i \in ImportHeads(lastDetail.code) :
                 (\/ lastDetail.code[i + 1].kind = "address"
                  \/ lastDetail.code[i + 1].val \notin DOMAIN configuration.Addresses)
                    => /\ lastDetail.submittedCode[i] = lastDetail.code[i]
                       /\ lastDetail.submittedCode[i + 1] = lastDetail.code[i + 1]

C28_Witness ==
    /\ Submitting
    /\ configuration.Addresses # <<>>
    /\ lastDetail.submitted
    /\ \E i, j \in ImportHeads(lastDetail.code) :
          /\ lastDetail.code[i + 1].kind = "address"
          /\ lastDetail.code[j + 1].kind = "string"
          /\ lastDetail.code[j + 1].val \notin DOMAIN configuration.Addresses

Reserved(location) ==
    location \in {CryptoCheckerLocation, TestContractLocation, BlockchainHelpersLocation}

\* C29: an import of the Crypto, Test or BlockchainHelpers location is served
\* from the built-in definitions with no resolver consulted and no error, with
\* or without a configured resolver; the resolver is consulted for other
\* locations only.
C29_BuiltinsBypassResolver ==
    /\ (lastImport.handler # "none" /\ Reserved(lastImport.location))
          => /\ lastImport.consulted = <<>>
             /\ lastImport.codeFrom = "builtin"
             /\ lastImport.err = NilErr
             /\ lastImport.panic \in {NilErr, Error("NewSubInterpreter", <<>>)}
    /\ (\E i \in DOMAIN lastImport.consulted : lastImport.consulted[i] = "resolver")
          => ~Reserved(lastImport.location)

C29_Witness ==
    /\ lastImport.handler = "checker"
    /\ lastImport.location = BlockchainHelpersLocation
    /\ importResolver = "nil"
    /\ lastImport.err = NilErr
    /\ lastImport.codeFrom = "builtin"

\* C30: after the resolver failed for an address location the ledger is
\* consulted next, and an error comes from the ledger or the check only;
\* after it failed for another location nothing else is consulted and the
\* resolver's error is what the handler returns or panics with.
C30_LedgerFallbackForAddresses ==
    (lastImport.resolved = "error")
        => IF lastImport.location.kind = "address"
           THEN /\ Len(lastImport.consulted) >= 2
                /\ lastImport.consulted[1] = "resolver"
                /\ lastImport.consulted[2] = "ledger"
                /\ Error("resolver", <<>>) \notin {lastImport.err, lastImport.panic}
           ELSE /\ lastImport.consulted = <<"resolver">>
                /\ Error("resolver", <<>>) =
                      IF lastImport.handler = "checker"
                      THEN lastImport.err ELSE lastImport.panic

C30_Witness ==
    /\ lastImport.resolved = "error"
    /\ lastImport.location.kind = "address"
    /\ lastImport.codeFrom = "ledger"
    /\ lastImport.err = NilErr
    /\ lastImport.panic = NilErr

\* the error an import ended with: returned by the checker's handler, raised
\* as a panic by the interpreter's
ImportFailure ==
    IF lastImport.handler = "checker" THEN lastImport.err ELSE lastImport.panic

Unsupported == Error("nested imports are not supported", <<>>)

\* the ledger was consulted for an import the imported program makes
NestedFromLedger ==
    /\ lastImport.nested \in {"address", "unknownAddress"}
    /\ lastImport.consulted # <<>>
    /\ lastImport.consulted[Len(lastImport.consulted)] = "ledger"
    /\ Len(lastImport.consulted) = IF lastImport.ledger = "unasked" THEN 2 ELSE 3

C34_MissingContractFails ==
    (/\ lastImport.resolved = "error"
     /\ lastImport.location.kind = "address"
     /\ lastImport.ledger \in {"error", "none"})
        => /\ ImportFailure # NilErr
           /\ lastImport.codeFrom # "empty"

\* the set of the elements of a sequence
Elements(seq) == { seq[i] : i \in DOMAIN seq }

\* C32: a run with -load-only enables no analyzer; otherwise a run with
\* -analyze flags enables exactly the analyzers they name, and ends in a
\* panic before any analysis when a name is unknown; otherwise it enables
\* every registered analyzer.
C32_EnabledAnalyzers ==
    (lintRun.target # "unrun")
        => IF lintRun.loadOnly
           THEN lintRun.enabledAnalyzers = <<>> /\ lintRun.panic = NilErr
           ELSE IF lintRun.analyzersFlag = <<>>
           THEN /\ Elements(lintRun.enabledAnalyzers) = RegisteredAnalyzers
                /\ lintRun.panic = NilErr
           ELSE IF Elements(lintRun.analyzersFlag) \subseteq RegisteredAnalyzers
           THEN /\ Elements(lintRun.enabledAnalyzers) = Elements(lintRun.analyzersFlag)
                /\ lintRun.panic = NilErr
           ELSE /\ lintRun.panic # NilErr
                /\ lintRun.target = "none"

C32_Witness ==
    /\ ~lintRun.loadOnly
    /\ lintRun.analyzersFlag = <<"external-mutation">>
    /\ lintRun.enabledAnalyzers = <<"external-mutation">>
    /\ lintRun.target = "directory"

\* C33: a DeployContract that submits its deployment has the ledger execute
\* that very transaction, the one it has just queued, also behind
\* transactions queued earlier; and it returns no error only if that
\* transaction was executed without error and the block was committed.
C33_DeployExecutesItsDeployment ==
    [][(/\ lastCall'.op = "DeployContract"
        /\ lastDetail'.submitted
        /\ lastCall'.panic = NilErr)
          => /\ blockchain.executed + 1 = Len(blockchain.pending) + 1
             /\ lastCall'.err = NilErr => blockchain'.pending = <<>>]_allVars

FirstDifference(a, b) ==
    LET both == 1..(IF Len(a) < Len(b) THEN Len(a) ELSE Len(b))
        differing == { i \in both : a[i] # b[i] }
    IN  IF differing = {} THEN (IF Len(a) < Len(b) THEN Len(a) ELSE Len(b)) + 1
        ELSE CHOOSE i \in differing : \A j \in differing : i <= j

\* two calls whose scripts loaded invoke the same functions in the same order
\* for as long as the functions do the same
SameInvocations(a, b) ==
    LET d == FirstDifference(a.trace, b.trace)
    IN  /\ d <= Len(a.trace) <=> d <= Len(b.trace)
        /\ d <= Len(a.trace) => /\ a.trace[d].kind = b.trace[d].kind
                                /\ a.trace[d].fn = b.trace[d].fn

ActiveAccounts == { i \in 1..Len(clientAccounts) : clientAccounts[i].Active }

\* C37: after a successful Initialize and any sequence of
\* SetActiveClientAccount and CreateAccount calls, successful or failing,
\* exactly one client account has Active = true, and it is the account
\* GetActiveClientAccount returns.
C37_ExactlyOneActive ==
    initialized => ActiveAccounts = {activeAccount}

\* C38: SetActiveClientAccount with a name no client account has returns an
\* error and leaves the accounts and the active account of the client as they
\* were.
C38_UnknownNameChangesNothing ==
    (/\ clientCall.op = "SetActiveClientAccount"
     /\ GetClientAccount(clientCall.accounts, clientCall.arg[1]) = 0)
        => /\ clientCall.err # NilErr
           /\ clientAccounts = clientCall.accounts
           /\ activeAccount = clientCall.active

\* C39: CreateAccount never makes more client accounts than there are
\* predefined names: called with len(names) accounts and nothing else failing
\* it returns the 'account limit reached' error without a panic and without
\* adding an account; otherwise the i-th account made has the i-th name, so
\* the names of the accounts are pairwise distinct.
C39_AccountLimit ==
    /\ Len(clientAccounts) <= Len(names)
    /\ \A i \in 1..Len(clientAccounts) : clientAccounts[i].Name = names[i]
    /\ (/\ clientCall.op = "CreateAccount"
        /\ clientCall.arg = <<"ok">>
        /\ Len(clientCall.accounts) = Len(names))
          => /\ clientCall.err = Error("account limit reached", <<>>)
             /\ clientCall.panic = NilErr
             /\ clientAccounts = clientCall.accounts

====
